---------------------------- MODULE Spec2Model ----------------------------
(***************************************************************************)
(* Swimming-start analyzer: the server's phase segmentation                *)
(* (app/api/analyze/route.ts), the client's start classifier and scoring   *)
(* pipeline (lib/pose-detection.ts, lib/analysis-engine.ts).               *)
(*                                                                         *)
(* Numbers.  Normalised coordinates and movements are fixed point, one     *)
(* unit = 0.001 of the frame (0.04 is 40).  A mean over k joints is kept   *)
(* exactly by scaling with JointLcm, a moving-window mean by scaling with  *)
(* WindowLcm, so every comparison of the code is a comparison of integers. *)
(* Arrays are functions on 0..n-1, indexed as in the code; buffers that    *)
(* grow by push are sequences and element i of the code is buffer[i+1].    *)
(***************************************************************************)
EXTENDS Integers, Sequences, FiniteSets, TLC

VARIABLES
    pc,         \* position of the operation under way
    poseData,   \* server: the poseData array of the request body
    phases,     \* server: what detectMovementPhases / analyzeSwimmingPhases returned
    poseSeq,    \* client: the keypoint sequence handed to isStartMotion
    startRes,   \* client: what isStartMotion(poseSeq, true) returned
    framePoses, \* client: the FramePose buffer handed to analyzeSwimmingStart
    frameId,    \* client: the frame counter of analyzePosesInVideo
    response,   \* how the fetch of /api/analyze settled
    result,     \* client: what analyzeSwimmingStart returned
    scalesSeen, \* history: the score sources behind the overallScore of past results
    prompt,     \* the per-frame lines of the last prompt sent to the external service
    previous    \* history: the buffer and the result of the run before a repeated one

vars == <<pc, poseData, phases, poseSeq, startRes, framePoses, frameId, response, result,
          scalesSeen, prompt, previous>>

serverVars == <<poseData, phases>>

startVars == <<poseSeq, startRes>>

pipeVars == <<framePoses, frameId, response, result, scalesSeen, prompt, previous>>

\* Largest number of frames in a server request buffer.
MaxFrames == 5

\* Largest number of frames in a sequence handed to isStartMotion.
MaxSeq == 6

\* Largest number of frames analyzePosesInVideo samples from a video.
MaxVideoFrames == 3

-----------------------------------------------------------------------------
(* Arithmetic helpers                                                      *)

Max2(a, b) == IF a >= b THEN a ELSE b

Min2(a, b) == IF a <= b THEN a ELSE b

Abs(a) == IF a >= 0 THEN a ELSE 0 - a

\* 60: every joint count 1..5 divides it.
JointLcm == 3 * 4 * 5

\* 420: every window size 1..7 divides it.
WindowLcm == 3 * 4 * 5 * 7

RECURSIVE SumFn(_, _, _)
\* f[lo] + ... + f[hi], 0 when hi < lo.
SumFn(f, lo, hi) == IF hi < lo THEN 0 ELSE f[hi] + SumFn(f, lo, hi - 1)

\* Math.max(...a) of a non-empty array.
MaxFn(f, n) == CHOOSE m \in {f[i] : i \in 0..(n - 1)} : \A i \in 0..(n - 1) : f[i] <= m

\* a.indexOf(v): the first index holding v.
IndexOf(f, n, v) == CHOOSE i \in 0..(n - 1) : f[i] = v /\ \A j \in 0..(i - 1) : f[j] # v

-----------------------------------------------------------------------------
(* Server frames: the elements of poseData                                 *)

ServerKeyJoints == {"nose", "left_shoulder", "right_shoulder", "left_hip", "right_hip"}

ServerHands == {"left_wrist", "right_wrist"}

ServerJoints == ServerKeyJoints \cup ServerHands

\* keypoints[joint] is undefined.
Absent == [p |-> FALSE, x |-> 0, y |-> 0]

At(x, y) == [p |-> TRUE, x |-> x, y |-> y]

\* A request frame: the trunk and the nose at abscissa x, the nose at height
\* noseY, both wrists absent ("none") or at height wristY; hasKp is whether the
\* frame carries a keypoints property at all.  movement is in units of 1/12000.
SFrame(hasKp, x, noseY, wrist, wristY, full, movement, posture) ==
    [hasKp |-> hasKp,
     keypoints |-> [j \in ServerJoints |->
                       IF ~hasKp THEN Absent
                       ELSE IF j = "nose" THEN At(x, noseY)
                       ELSE IF j \in ServerHands
                            THEN (IF wrist THEN At(x, wristY) ELSE Absent)
                       ELSE At(x, 500)],
     hasFullBody |-> full,
     movement |-> movement,
     posture |-> posture]

\* The frames a request buffer is built from.
ServerFrames ==
    { SFrame(TRUE, 0, 300, FALSE, 0, TRUE, 0, "upright"),
      SFrame(TRUE, 200, 300, FALSE, 0, TRUE, 252, "transitioning"),
      SFrame(TRUE, 500, 300, TRUE, 400, TRUE, 144, "transitioning"),
      SFrame(TRUE, 0, 300, TRUE, 400, TRUE, 0, "upright"),
      SFrame(TRUE, 0, 300, TRUE, 900, FALSE, 48, "streamlined"),
      SFrame(TRUE, 200, 700, FALSE, 0, FALSE, 96, "streamlined"),
      SFrame(FALSE, 0, 0, FALSE, 0, TRUE, 0, "incomplete") }

-----------------------------------------------------------------------------
(* Phase Boundary Detector                                                 *)

\* Per-frame mean |dx| of the key joints present in both frames, times JointLcm.
calculateHorizontalMovements(pd) ==
    [i \in 0..(Len(pd) - 1) |->
        IF i = 0 THEN 0
        ELSE LET prev == pd[i]
                 curr == pd[i + 1]
                 valid == {j \in ServerKeyJoints :
                              /\ prev.hasKp /\ curr.hasKp
                              /\ prev.keypoints[j].p /\ curr.keypoints[j].p}
                 dxs == [j \in ServerKeyJoints |->
                            Abs(curr.keypoints[j].x - prev.keypoints[j].x)]
                 total == dxs["nose"] * (IF "nose" \in valid THEN 1 ELSE 0)
                        + dxs["left_shoulder"] * (IF "left_shoulder" \in valid THEN 1 ELSE 0)
                        + dxs["right_shoulder"] * (IF "right_shoulder" \in valid THEN 1 ELSE 0)
                        + dxs["left_hip"] * (IF "left_hip" \in valid THEN 1 ELSE 0)
                        + dxs["right_hip"] * (IF "right_hip" \in valid THEN 1 ELSE 0)
             IN IF Cardinality(valid) > 0
                THEN total * (JointLcm \div Cardinality(valid))
                ELSE 0]

baseThreshold == 40

spikeThreshold == 60

consecutiveFrames == 4

smoothingWindow == 3

\* A threshold of the code in the unit of the smoothed movements.
Smoothed(th) == th * JointLcm * WindowLcm

\* smoothedMovements: the mean over [i-3, i+3] cut at the ends, times WindowLcm.
smoothedMovements(mv, n) ==
    [i \in 0..(n - 1) |->
        LET lo == Max2(0, i - smoothingWindow)
            hi == Min2(n - 1, i + smoothingWindow)
        IN SumFn(mv, lo, hi) * (WindowLcm \div (hi - lo + 1))]

\* smoothed[i] > spikeThreshold and smoothed[i] > 2.5 * mean(smoothed[max(0,i-3) .. i-1]).
IsSpike(sm, i) ==
    /\ sm[i] > Smoothed(spikeThreshold)
    /\ 2 * Min2(3, i) * sm[i] > 5 * SumFn(sm, Max2(0, i - 3), i - 1)

\* The 4 samples from i all exceed baseThreshold and their mean exceeds 1.8 * baseThreshold.
IsSustained(sm, i) ==
    LET over == {j \in 0..(consecutiveFrames - 1) : sm[i + j] > Smoothed(baseThreshold)}
        total == SumFn([j \in 0..(consecutiveFrames - 1) |->
                           IF j \in over THEN sm[i + j] ELSE 0], 0, consecutiveFrames - 1)
    IN /\ Cardinality(over) >= consecutiveFrames
       /\ 10 * total > 18 * consecutiveFrames * Smoothed(baseThreshold)

findLaunchStart(mv, n) ==
    LET sm == smoothedMovements(mv, n)
        spikes == {i \in 1..(n - 1) : IsSpike(sm, i)}
        sustained == {i \in 1..(n - consecutiveFrames - 1) : IsSustained(sm, i)}
        first(S) == CHOOSE i \in S : \A j \in S : i <= j
    IN IF spikes # {} THEN Max2(1, first(spikes))
       ELSE IF sustained # {} THEN Max2(1, first(sustained))
       ELSE IF n > 0 /\ MaxFn(sm, n) > Smoothed(baseThreshold)
            THEN Max2(1, IndexOf(sm, n, MaxFn(sm, n)))
       ELSE Max2(1, (n * 33) \div 100)

checkHandsWaterEntryOne(prev, curr, hand) ==
    IF prev.hasKp /\ curr.hasKp /\ prev.keypoints[hand].p /\ curr.keypoints[hand].p
    THEN \/ curr.keypoints[hand].y - prev.keypoints[hand].y > 150
         \/ curr.keypoints[hand].y > 800
    ELSE /\ prev.hasKp /\ prev.keypoints[hand].p
         /\ (~curr.hasKp \/ ~curr.keypoints[hand].p)

\* The loop over the two hands returns at the first hand that decides true.
checkHandsWaterEntry(prev, curr) ==
    \E hand \in ServerHands : checkHandsWaterEntryOne(prev, curr, hand)

checkHeadWaterEntry(prev, curr) ==
    /\ prev.hasKp /\ curr.hasKp
    /\ prev.keypoints["nose"].p /\ curr.keypoints["nose"].p
    /\ curr.keypoints["nose"].y - prev.keypoints["nose"].y > 100
    /\ curr.keypoints["nose"].y > 600

checkVisibilityChange(prev, curr) ==
    (IF prev.hasFullBody THEN 1 ELSE 0) > (IF curr.hasFullBody THEN 1 ELSE 0)

IsWaterEntry(pd, i) ==
    \/ checkHandsWaterEntry(pd[i], pd[i + 1])
    \/ checkHeadWaterEntry(pd[i], pd[i + 1]) /\ checkVisibilityChange(pd[i], pd[i + 1])

\* The first frame index i >= 1 with a water-entry signal, -1 when there is none.
detectWaterEntry(pd) ==
    LET hits == {i \in 1..(Len(pd) - 1) : IsWaterEntry(pd, i)}
    IN IF hits = {} THEN 0 - 1 ELSE CHOOSE i \in hits : \A j \in hits : i <= j

findEntryStart(mv, n, launchStart) ==
    LET len == Max2(0, n - launchStart)
        post == [i \in 0..(len - 1) |-> mv[launchStart + i]]
    IN IF len < 3 THEN Min2(n - 1, launchStart + 1)
       ELSE LET peak == MaxFn(post, len)
                maxMovementIndex == IndexOf(post, len, peak)
                drops == {i \in (maxMovementIndex + 1)..(len - 3) : 10 * post[i] < 4 * peak}
            IN IF drops # {}
               THEN launchStart + (CHOOSE i \in drops : \A j \in drops : i <= j)
               ELSE Min2(n - 1, launchStart + ((len * 7) \div 10))

detectMovementPhases(pd) ==
    LET n == Len(pd)
        movements == calculateHorizontalMovements(pd)
        waterEntryFrame == detectWaterEntry(pd)
        launchStart == findLaunchStart(movements, n)
        entryStart == IF waterEntryFrame # 0 - 1 THEN waterEntryFrame
                      ELSE findEntryStart(movements, n, launchStart)
    IN [launchStart |-> Max2(1, launchStart),
        entryStart |-> Min2(n - 1, entryStart)]

\* poseData.slice(a, b)
Slice(pd, a, b) ==
    LET n == Len(pd)
        lo == IF a < 0 THEN Max2(0, n + a) ELSE Min2(a, n)
        hi == IF b < 0 THEN Max2(0, n + b) ELSE Min2(b, n)
    IN IF hi <= lo THEN <<>> ELSE SubSeq(pd, lo + 1, hi)

-----------------------------------------------------------------------------
(* Phase Scorer.  Scores are in hundredths of a point (6.0 is 600); the    *)
(* movement field of a frame is in units of 1/12000 (0.02 is 240).         *)

\* Math.round(num / den), num >= 0: halves round up.
RoundHalfUp(num, den) == (2 * num + den) \div (2 * den)

\* Math.round(v * 10) / 10 for v = num / den hundredths, in hundredths.
Round1(num, den) == 10 * RoundHalfUp(num, den * 10)

\* 12: every joint count 1..4 divides it (the unit of the movement field).
StartLcm == 3 * 4

\* frames.map(f => f.movement || 0)
MovementsOf(frames) == [i \in 1..Len(frames) |-> frames[i].movement]

RECURSIVE SumSeq(_)
SumSeq(q) == IF q = <<>> THEN 0 ELSE Head(q) + SumSeq(Tail(q))

MaxSeqOf(q) == CHOOSE m \in {q[i] : i \in 1..Len(q)} : \A i \in 1..Len(q) : q[i] <= m

SomeFrame(frames, P(_)) == \E i \in 1..Len(frames) : P(frames[i])

IsUpright(f) == f.posture = "upright"

IsTransitioning(f) == f.posture = "transitioning"

IsStreamlined(f) == f.posture = "streamlined"

HasFullBody(f) == f.hasFullBody

baseScore == 600

\* The uncapped score of analyzeSetupPhase.
setupRaw(frames) ==
    baseScore
    + (IF SomeFrame(frames, IsUpright) THEN 150 ELSE 0)
    + (IF Len(frames) > 3 THEN 100 ELSE 0)
    + (IF SomeFrame(frames, HasFullBody) THEN 50 ELSE 0)

analyzeSetupPhase(frames) ==
    IF Len(frames) = 0 THEN baseScore ELSE Min2(setupRaw(frames), 1000)

\* The uncapped score of analyzeLaunchPhase.
launchRaw(frames) ==
    LET movements == MovementsOf(frames)
        maxMovement == MaxSeqOf(movements)
    IN baseScore
       + (IF maxMovement > 20 * StartLcm THEN 200
          ELSE IF maxMovement > 15 * StartLcm THEN 150
          ELSE IF maxMovement > 10 * StartLcm THEN 100
          ELSE 0)
       + (IF SomeFrame(frames, IsTransitioning) THEN 100 ELSE 0)
       + (IF SumSeq(movements) > 5 * StartLcm * Len(frames) THEN 50 ELSE 0)

\* The launch score reported on the 0..100 scale of the angle comparator.
analyzeLaunchPhasePercent(frames) ==
    IF Len(frames) = 0 THEN 10 * baseScore ELSE Min2(10 * launchRaw(frames), 10 * 1000)

analyzeLaunchPhase(frames) ==
    IF Len(frames) = 0 THEN baseScore ELSE Min2(launchRaw(frames), 1000)

\* The uncapped score of analyzeEntryPhase.
entryRaw(frames) ==
    LET total == SumSeq(MovementsOf(frames))
    IN baseScore
       + (IF SomeFrame(frames, IsStreamlined) THEN 200
          ELSE IF SomeFrame(frames, IsTransitioning) THEN 100
          ELSE 0)
       + (IF SomeFrame(frames, HasFullBody) THEN 100 ELSE 0)
       + (IF total > 3 * StartLcm * Len(frames) /\ total < 15 * StartLcm * Len(frames)
          THEN 50 ELSE 0)

analyzeEntryPhase(frames) ==
    IF Len(frames) = 0 THEN baseScore ELSE Min2(entryRaw(frames), 1000)

\* The index (1..4) of the band of a score: >= 8.5, >= 7.0, >= 5.5, below.
feedbackBand(score) ==
    IF score >= 850 THEN 1 ELSE IF score >= 700 THEN 2 ELSE IF score >= 550 THEN 3 ELSE 4

generateSetupFeedback(score) ==
    << "Excellent starting position and stability!",
       "Good setup with room for minor improvements.",
       "Decent setup - focus on stability and positioning.",
       "Work on improving starting position and stability." >>[feedbackBand(score)]

generateLaunchFeedback(score) ==
    << "Outstanding explosive launch with excellent power!",
       "Strong launch with good power and coordination.",
       "Moderate launch - work on explosive power.",
       "Focus on developing more explosive push-off power." >>[feedbackBand(score)]

generateEntryFeedback(score) ==
    << "Perfect streamlined entry with optimal form!",
       "Good entry form with minor areas for improvement.",
       "Decent entry - work on streamline and control.",
       "Focus on achieving better streamlined position." >>[feedbackBand(score)]

\* The setup feedback chosen before any credit is added to the base score.
setupFeedbackOfBase(frames) ==
    IF Len(frames) = 0 THEN "Setup phase too short to analyze properly"
    ELSE generateSetupFeedback(baseScore)

\* The feedback of the three scorers: a fixed sentence for an empty slice, else
\* the band of the score before it is capped.
setupFeedback(frames) ==
    IF Len(frames) = 0 THEN "Setup phase too short to analyze properly"
    ELSE generateSetupFeedback(setupRaw(frames))

launchFeedback(frames) ==
    IF Len(frames) = 0 THEN "Launch phase not detected"
    ELSE generateLaunchFeedback(launchRaw(frames))

entryFeedback(frames) ==
    IF Len(frames) = 0 THEN "Entry phase not captured"
    ELSE generateEntryFeedback(entryRaw(frames))

NoPhases == [kind |-> "none", launchStart |-> 0, entryStart |-> 0,
             setupLen |-> 0, launchLen |-> 0, entryLen |-> 0,
             setupScore |-> 0, launchScore |-> 0, entryScore |-> 0, overallScore |-> 0,
             setupFeedback |-> "", launchFeedback |-> "", entryFeedback |-> ""]

getDefaultPhaseAnalysis ==
    [NoPhases EXCEPT !.kind = "default",
                     !.setupScore = baseScore, !.launchScore = baseScore,
                     !.entryScore = baseScore, !.overallScore = baseScore,
                     !.setupFeedback = "Not enough data for setup analysis",
                     !.launchFeedback = "Not enough data for launch analysis",
                     !.entryFeedback = "Not enough data for entry analysis"]

\* The weights of the overall score exchanged between setup and launch.
weightedSumSetupHeavy(setupScore, launchScore, entryScore) ==
    50 * setupScore + 25 * launchScore + 25 * entryScore

\* setup * 0.25 + launch * 0.5 + entry * 0.25, in 1/100 of a hundredth.
weightedSum(setupScore, launchScore, entryScore) ==
    25 * setupScore + 50 * launchScore + 25 * entryScore

\* analyzeSwimmingPhases: the default analysis below 3 frames, else the three
\* slices, their scores and the weighted overall score.
analyzeSwimmingPhases(pd) ==
    IF Len(pd) < 3
    THEN getDefaultPhaseAnalysis
    ELSE LET bp == detectMovementPhases(pd)
             n == Len(pd)
             setupFrames == Slice(pd, 0, bp.launchStart)
             launchFrames == Slice(pd, bp.launchStart, bp.entryStart)
             entryFrames == Slice(pd, bp.entryStart, n)
             setupScore == analyzeSetupPhase(setupFrames)
             launchScore == analyzeLaunchPhase(launchFrames)
             entryScore == analyzeEntryPhase(entryFrames)
         IN [kind |-> "analysed",
             launchStart |-> bp.launchStart,
             entryStart |-> bp.entryStart,
             setupLen |-> Len(setupFrames),
             launchLen |-> Len(launchFrames),
             entryLen |-> Len(entryFrames),
             setupScore |-> setupScore,
             launchScore |-> launchScore,
             entryScore |-> entryScore,
             overallScore |-> Round1(weightedSum(setupScore, launchScore, entryScore),
                                     100),
             setupFeedback |-> setupFeedback(setupFrames),
             launchFeedback |-> launchFeedback(launchFrames),
             entryFeedback |-> entryFeedback(entryFrames)]

-----------------------------------------------------------------------------
(* Client keypoints (PoseFrame.keypoints) and the Stillness & Start        *)
(* Classifier                                                              *)

ClientJoints == {"nose", "leftShoulder", "rightShoulder", "leftElbow", "rightElbow",
                 "leftWrist", "rightWrist", "leftHip", "rightHip", "leftKnee",
                 "rightKnee", "leftAnkle", "rightAnkle"}

StartKeyJoints == {"leftHip", "rightHip", "leftShoulder", "rightShoulder"}

\* keypoints[name] is undefined.
CAbsent == [p |-> FALSE, x |-> 0, y |-> 0, v |-> 0]

\* keypoints[name] = {x, y, visibility}; visibility in hundredths.
CAt(x, y, v) == [p |-> TRUE, x |-> x, y |-> y, v |-> v]

\* A keypoint map with the nose and the joints of `present` at abscissa x.
StartKeypoints(x, present) ==
    [j \in ClientJoints |->
        IF j = "nose" THEN CAt(x, 300, 90)
        ELSE IF j \in present THEN CAt(x, 500, 90)
        ELSE CAbsent]

\* The keypoint maps a sequence for isStartMotion is built from.
StartFrames ==
    { StartKeypoints(100, StartKeyJoints),
      StartKeypoints(104, StartKeyJoints),
      StartKeypoints(112, StartKeyJoints),
      StartKeypoints(130, StartKeyJoints),
      StartKeypoints(107, {"leftHip", "rightHip"}),
      StartKeypoints(100, {}) }

\* The joints of keyJoints present in frame i and in frame i-1 (i as in the code).
StartValidJoints(ps, i) ==
    {j \in StartKeyJoints : ps[i + 1][j].p /\ ps[i][j].p}

RECURSIVE SumAbsDx(_, _, _)
SumAbsDx(ps, i, joints) ==
    IF joints = {} THEN 0
    ELSE LET j == CHOOSE k \in joints : TRUE
         IN Abs(ps[i + 1][j].x - ps[i][j].x) + SumAbsDx(ps, i, joints \ {j})

RECURSIVE horizontalVelocitiesFrom(_, _)
\* The samples pushed for frames i, i+1, ...: one per frame pair with a joint in
\* common, the mean |dx| times StartLcm.
horizontalVelocitiesFrom(ps, i) ==
    IF i >= Len(ps) THEN <<>>
    ELSE LET valid == StartValidJoints(ps, i)
             rest == horizontalVelocitiesFrom(ps, i + 1)
         IN IF Cardinality(valid) > 0
            THEN <<SumAbsDx(ps, i, valid) * (StartLcm \div Cardinality(valid))>> \o rest
            ELSE rest

horizontalVelocities(ps) == horizontalVelocitiesFrom(ps, 1)

minStartFrames == 5

velocityJumpThreshold == 3

NoStart == [isStart |-> FALSE, confidence |-> 0, error |-> "", maxVelocity |-> 0,
            samples |-> 0]

\* The confidence (hundredths) isStartMotion computes from isStart and maxVelocity.
startConfidence(isStart, maxVelocity) ==
    IF isStart
    THEN Min2(100, 80 + (IF maxVelocity > 15 * StartLcm THEN 20
                         ELSE IF maxVelocity > 10 * StartLcm THEN 15
                         ELSE IF maxVelocity > 5 * StartLcm THEN 10
                         ELSE 0))
    ELSE 50

\* isStartMotion without its guards on the sequence length and the sample count.
isStartMotionUnguarded(ps) ==
    LET hv == horizontalVelocities(ps)
        maxVelocity == IF Len(hv) = 0 THEN 0 ELSE MaxSeqOf(hv)
        isStart == /\ maxVelocity > velocityJumpThreshold * StartLcm
                   /\ SumSeq(hv) > 1 * StartLcm * Len(hv)
    IN [isStart |-> isStart,
        confidence |-> startConfidence(isStart, maxVelocity),
        error |-> "",
        maxVelocity |-> maxVelocity,
        samples |-> Len(hv)]

\* isStartMotion(poseSeq, true): {isStart, confidence, details}.
isStartMotion(ps) ==
    IF Len(ps) < minStartFrames
    THEN [NoStart EXCEPT !.error = "Sequence too short"]
    ELSE LET hv == horizontalVelocities(ps)
         IN IF Len(hv) < 2
            THEN [NoStart EXCEPT !.error = "Not enough velocity data", !.samples = Len(hv)]
            ELSE LET maxVelocity == MaxSeqOf(hv)
                     velocityJumpPassed == maxVelocity > velocityJumpThreshold * StartLcm
                     hasSignificantMovement == SumSeq(hv) > 1 * StartLcm * Len(hv)
                     isStart == velocityJumpPassed /\ hasSignificantMovement
                 IN [isStart |-> isStart,
                     confidence |-> startConfidence(isStart, maxVelocity),
                     error |-> "",
                     maxVelocity |-> maxVelocity,
                     samples |-> Len(hv)]

-----------------------------------------------------------------------------
(* FramePose buffers (lib/analysis-engine.ts): keypoints in canvas pixels  *)

\* pose.keypoints has no entry of that name.
PAbsent == [p |-> FALSE, x |-> 0, y |-> 0, score |-> 0]

\* pose.keypoints entry {x, y, score, name}; score in hundredths.
PAt(x, y, score) == [p |-> TRUE, x |-> x, y |-> y, score |-> score]

defaultCanvas == 512

\* convertLandmarksToKeypoints: visibility = landmark.score || landmark.visibility
\* || 1 (the detector gives a score only); every landmark is kept.
landmarkVisibility(score) == IF score # 0 THEN score ELSE 100

\* convertToFramePose: score = kp.visibility || 1.
framePoseScore(visibility) == IF visibility # 0 THEN visibility ELSE 100

\* The pose of one frame.  The trunk is shifted right by dx pixels; narrow puts
\* both shoulders and hips on one vertical line; legs and arms are "straight" /
\* "bent" / "rightOnly" / "none" and "down" / "forward" / "none"; landmarkScore is the
\* detector's score of the limb joints (knees, ankles, elbows, wrists).
PoseOf(dx, narrow, legs, arms, leftHip, landmarkScore) ==
    LET limbScore == framePoseScore(landmarkVisibility(landmarkScore))
        lx == 192 + dx
        rx == IF narrow THEN 192 + dx ELSE 320 + dx
        side(j) == IF j \in {"leftShoulder", "leftElbow", "leftWrist", "leftHip",
                             "leftKnee", "leftAnkle"} THEN lx ELSE rx
        isLeft(j) == side(j) = lx /\ j \in {"leftShoulder", "leftElbow", "leftWrist",
                                            "leftHip", "leftKnee", "leftAnkle"}
        legOn(j) == legs \in {"straight", "bent"} \/ (legs = "rightOnly" /\ ~isLeft(j))
        bentLeg == legs \in {"bent", "rightOnly"}
    IN [keypoints |->
          [j \in ClientJoints |->
             IF j = "nose" THEN PAt(256 + dx, 64, 90)
             ELSE IF j \in {"leftShoulder", "rightShoulder"} THEN PAt(side(j), 128, 90)
             ELSE IF j = "leftHip" THEN (IF leftHip THEN PAt(lx, 256, 90) ELSE PAbsent)
             ELSE IF j = "rightHip" THEN PAt(rx, 256, 90)
             ELSE IF j \in {"leftKnee", "rightKnee"}
                  THEN (IF ~legOn(j) THEN PAbsent
                        ELSE IF bentLeg THEN PAt(side(j) + 64, 320, limbScore)
                        ELSE PAt(side(j), 384, limbScore))
             ELSE IF j \in {"leftAnkle", "rightAnkle"}
                  THEN (IF ~legOn(j) THEN PAbsent
                        ELSE IF bentLeg THEN PAt(side(j) + 64, 384, limbScore)
                        ELSE PAt(side(j), 448, limbScore))
             ELSE IF j \in {"leftElbow", "rightElbow"}
                  THEN (IF arms = "none" THEN PAbsent
                        ELSE IF arms = "forward" THEN PAt(side(j) + 64, 128, limbScore)
                        ELSE PAt(side(j), 192, limbScore))
             ELSE (IF arms = "none" THEN PAbsent
                   ELSE IF arms = "forward" THEN PAt(side(j) + 128, 128, limbScore)
                   ELSE PAt(side(j), 256, limbScore))],
        canvasWidth |-> defaultCanvas,
        canvasHeight |-> defaultCanvas]

\* The poses a FramePose buffer is built from.
ClientPoses ==
    { PoseOf(0, FALSE, "straight", "down", TRUE, 90),
      PoseOf(64, FALSE, "bent", "forward", TRUE, 90),
      PoseOf(64, FALSE, "none", "forward", TRUE, 90),
      PoseOf(0, FALSE, "bent", "down", TRUE, 10),
      PoseOf(128, TRUE, "rightOnly", "forward", TRUE, 90),
      PoseOf(64, FALSE, "straight", "none", FALSE, 90) }

\* convertToPoseFrame: pixels back to normalised thousandths, score to visibility.
convertToPoseFrame(fps) ==
    [i \in 1..Len(fps) |->
        LET fp == fps[i]
            cw == IF fp.pose.canvasWidth # 0 THEN fp.pose.canvasWidth ELSE defaultCanvas
            ch == IF fp.pose.canvasHeight # 0 THEN fp.pose.canvasHeight ELSE defaultCanvas
        IN [frameId |-> fp.frameNumber,
            keypoints |-> [j \in ClientJoints |->
                              IF fp.pose.keypoints[j].p
                              THEN CAt((fp.pose.keypoints[j].x * 1000) \div cw,
                                       (fp.pose.keypoints[j].y * 1000) \div ch,
                                       fp.pose.keypoints[j].score)
                              ELSE CAbsent],
            canvasWidth |-> cw,
            canvasHeight |-> ch]]

-----------------------------------------------------------------------------
(* The payload of analyzeWithGemini (lib/pose-detection.ts)                *)

\* Math.sqrt(dx*dx + dy*dy); the poses move each joint along one axis or by a
\* Pythagorean step, so the root is an integer.
Dist(dx, dy) ==
    IF dy = 0 THEN Abs(dx)
    ELSE IF dx = 0 THEN Abs(dy)
    ELSE CHOOSE r \in 0..(Abs(dx) + Abs(dy)) : r * r = dx * dx + dy * dy

RECURSIVE SumDist(_, _, _)
SumDist(prev, curr, joints) ==
    IF joints = {} THEN 0
    ELSE LET j == CHOOSE k \in joints : TRUE
         IN Dist(curr[j].x - prev[j].x, curr[j].y - prev[j].y)
            + SumDist(prev, curr, joints \ {j})

\* calculateFrameMovement: the mean displacement of the trunk joints present in
\* both frames, times StartLcm.
calculateFrameMovement(prev, curr) ==
    LET valid == {j \in StartKeyJoints : prev[j].p /\ curr[j].p}
    IN IF Cardinality(valid) > 0
       THEN SumDist(prev, curr, valid) * (StartLcm \div Cardinality(valid))
       ELSE 0

analyzePosePosture(kp) ==
    IF ~kp["nose"].p \/ ~kp["leftShoulder"].p \/ ~kp["rightShoulder"].p
    THEN "incomplete"
    ELSE LET shoulderWidth == Abs(kp["leftShoulder"].x - kp["rightShoulder"].x)
             bodyHeight == IF kp["leftHip"].p /\ kp["nose"].p
                           THEN Abs(kp["leftHip"].y - kp["nose"].y) ELSE 0
         IN IF shoulderWidth > 100 /\ bodyHeight > 200 THEN "upright"
            ELSE IF shoulderWidth < 50 THEN "streamlined"
            ELSE "transitioning"

FullBodyJoints == {"nose", "leftShoulder", "rightShoulder", "leftHip", "rightHip",
                   "leftKnee", "rightKnee"}

\* simplifiedData: per frame {frame, hasFullBody, movement, posture}, no keypoints.
simplifiedData(poseFrames) ==
    [i \in 1..Len(poseFrames) |->
        [hasKp |-> FALSE,
         keypoints |-> [j \in ServerJoints |-> Absent],
         hasFullBody |-> \A j \in FullBodyJoints : poseFrames[i].keypoints[j].p,
         movement |-> IF i > 1
                      THEN calculateFrameMovement(poseFrames[i - 1].keypoints,
                                                  poseFrames[i].keypoints)
                      ELSE 0,
         posture |-> analyzePosePosture(poseFrames[i].keypoints)]]

\* (frame.movement * 1000).toFixed(1), in tenths of a unit.
movementUnits(movement) == RoundHalfUp(10 * 1000 * movement, 1000 * StartLcm)

\* generateDetailedGeminiFeedback.movementData: one line per frame with the
\* visibility flag, the movement and the posture.
movementData(pd) ==
    [i \in 1..Len(pd) |->
        <<[field |-> "visibility", v |-> IF pd[i].hasFullBody THEN 1 ELSE 0],
          [field |-> "movement", v |-> movementUnits(pd[i].movement)],
          [field |-> "posture", v |-> pd[i].posture]>>]

\* Number.prototype.toFixed(2) of a coordinate in thousandths, in hundredths.
toFixed2(x) == RoundHalfUp(x, 10)

\* The joints of a pose in the order Object.entries yields them.
JointOrder ==
    <<"nose", "leftShoulder", "rightShoulder", "leftElbow", "rightElbow", "leftWrist",
      "rightWrist", "leftHip", "rightHip", "leftKnee", "rightKnee", "leftAnkle",
      "rightAnkle">>

\* generateGeminiFeedback.poseText: for each of the first 10 poses one line with
\* name(x, y) for every joint whose visibility exceeds 0.5.
poseText(poseSequence) ==
    [i \in 1..Min2(10, Len(poseSequence)) |->
        LET shown == SelectSeq(JointOrder,
                               LAMBDA j : poseSequence[i][j].p /\ poseSequence[i][j].v > 50)
        IN [k \in 1..Len(shown) |->
               [field |-> "coordinates", v |-> <<shown[k],
                                                toFixed2(poseSequence[i][shown[k]].x),
                                                toFixed2(poseSequence[i][shown[k]].y)>>]]]

-----------------------------------------------------------------------------
(* Biomechanical angle comparator (lib/analysis-engine.ts).  Angles are in  *)
(* degrees; averages and scores are exact fractions n/d, and d = 0 is NaN.  *)

RECURSIVE GCD(_, _)
GCD(a, b) == IF b = 0 THEN a ELSE GCD(b, a % b)

LCM(a, b) == (a \div GCD(a, b)) * b

Frac(n, d) == [n |-> n, d |-> d]

NaN == Frac(0, 0)

Reduce(f) ==
    IF f.d = 0 THEN NaN
    ELSE LET g == GCD(Abs(f.n), f.d) IN Frac(f.n \div g, f.d \div g)

FAdd(a, b) ==
    IF a.d = 0 \/ b.d = 0 THEN NaN
    ELSE LET l == LCM(a.d, b.d)
         IN Reduce(Frac(a.n * (l \div a.d) + b.n * (l \div b.d), l))

\* f times k/m.
FScale(f, k, m) == IF f.d = 0 THEN NaN ELSE Reduce(Frac(f.n * k, f.d * m))

\* Math.atan2(dy, dx) in degrees; the poses put every limb segment on one of the
\* eight compass directions.
Atan2Deg(dy, dx) ==
    CASE dx = 0 /\ dy = 0 -> 0
      [] dx > 0 /\ dy = 0 -> 0
      [] dx > 0 /\ dy = dx -> 45
      [] dx = 0 /\ dy > 0 -> 90
      [] dx < 0 /\ dy = 0 - dx -> 135
      [] dx < 0 /\ dy = 0 -> 180
      [] dx < 0 /\ dy = dx -> 0 - 135
      [] dx = 0 /\ dy < 0 -> 0 - 90
      [] dx > 0 /\ dy = 0 - dx -> 0 - 45

calculateAngle(p1, p2, p3) ==
    LET degrees == Atan2Deg(p3.y - p2.y, p3.x - p2.x) - Atan2Deg(p1.y - p2.y, p1.x - p2.x)
        angle == Abs(degrees)
    IN IF angle > 180 THEN 360 - angle ELSE angle

\* The joints of each angle: the left triplet, then the right one.
AngleTriplets ==
    [hip |-> << <<"leftShoulder", "leftHip", "leftKnee">>,
                <<"rightShoulder", "rightHip", "rightKnee">> >>,
     knee |-> << <<"leftHip", "leftKnee", "leftAnkle">>,
                 <<"rightHip", "rightKnee", "rightAnkle">> >>,
     shoulder |-> << <<"leftElbow", "leftShoulder", "leftHip">>,
                     <<"rightElbow", "rightShoulder", "rightHip">> >>,
     elbow |-> << <<"leftShoulder", "leftElbow", "leftWrist">>,
                  <<"rightShoulder", "rightElbow", "rightWrist">> >>]

\* getKeypointByName finds all three joints of the triplet.
tripletFound(kp, t) == kp[t[1]].p /\ kp[t[2]].p /\ kp[t[3]].p

\* The angle of a triplet on the left side, else on the right side, else 0.
sideAngle(kp, a) ==
    LET l == AngleTriplets[a][1]
        r == AngleTriplets[a][2]
    IN IF tripletFound(kp, l) THEN calculateAngle(kp[l[1]], kp[l[2]], kp[l[3]])
       ELSE IF tripletFound(kp, r) THEN calculateAngle(kp[r[1]], kp[r[2]], kp[r[3]])
       ELSE 0

calculateBodyAngles(pose) ==
    [hip |-> sideAngle(pose.keypoints, "hip"),
     knee |-> sideAngle(pose.keypoints, "knee"),
     shoulder |-> sideAngle(pose.keypoints, "shoulder"),
     elbow |-> sideAngle(pose.keypoints, "elbow")]

AngleNames == {"hip", "knee", "shoulder", "elbow"}

PhaseNames == {"setup", "launch", "entry"}

\* progress = frameNumber / totalFrames against 0.3 and 0.7.
identifyPhase(frameNumber, totalFrames) ==
    IF 10 * frameNumber < 3 * totalFrames THEN "setup"
    ELSE IF 10 * frameNumber < 7 * totalFrames THEN "launch"
    ELSE "entry"

\* scoreAngle: actual and optimal are numbers (optimal is NaN when the profile
\* has no such entry: every use of it is arithmetic), range is {min, max}.
\* deviation is in units of 1/(actual.d * optimal.d), maxDeviation of 1/optimal.d.
scoreAngle(actual, optimal, range) ==
    IF actual.n >= range.min * actual.d /\ actual.n <= range.max * actual.d
    THEN IF optimal.d = 0 THEN NaN
         ELSE LET deviation == Abs(actual.n * optimal.d - optimal.n * actual.d)
                  maxDeviation == Max2(optimal.n - range.min * optimal.d,
                                       range.max * optimal.d - optimal.n)
              IN IF maxDeviation = 0
                 THEN (IF deviation = 0 THEN NaN ELSE Frac(0, 1))
                 ELSE Reduce(Frac(Max2(0, 100 * maxDeviation * actual.d - 100 * deviation),
                                  maxDeviation * actual.d))
    ELSE LET distanceFromRange == Min2(Abs(actual.n - range.min * actual.d),
                                       Abs(actual.n - range.max * actual.d))
         IN Reduce(Frac(Max2(0, 50 * actual.d - 2 * distanceFromRange), actual.d))

\* The reference profiles (pro-swimmer-data.json) an analysis is run against:
\* phases[phase].keyAngles and optimalRanges, as the comparator reads them.
KeyAngles(hip, knee, shoulder, elbow) ==
    [hip |-> hip, knee |-> knee, shoulder |-> shoulder, elbow |-> elbow]

Range(lo, hi) == [min |-> lo, max |-> hi]

ProProfiles ==
    { [phases |-> [setup |-> KeyAngles(90, 135, 45, 180),
                   launch |-> KeyAngles(135, 135, 90, 180),
                   entry |-> KeyAngles(180, 180, 180, 180)],
       optimalRanges |-> KeyAngles(Range(45, 180), Range(90, 180),
                                   Range(0, 180), Range(90, 180))],
      [phases |-> [setup |-> KeyAngles(135, 90, 90, 135),
                   launch |-> KeyAngles(180, 180, 135, 180),
                   entry |-> KeyAngles(180, 180, 180, 180)],
       optimalRanges |-> KeyAngles(Range(90, 180), Range(45, 180),
                                   Range(45, 180), Range(45, 180))] }

\* fps.filter(fp => identifyPhase(fp.frameNumber, totalFrames) === phase)
phaseFrames(fps, phase) ==
    SelectSeq(fps, LAMBDA fp : identifyPhase(fp.frameNumber, Len(fps)) = phase)

RECURSIVE sumAngle(_, _)
sumAngle(frames, a) ==
    IF frames = <<>> THEN 0
    ELSE calculateBodyAngles(Head(frames).pose)[a] + sumAngle(Tail(frames), a)

\* avgAngles.<a> after the forEach and the division by frames.length.
avgAngle(frames, a) ==
    IF Len(frames) > 0 THEN Reduce(Frac(sumAngle(frames, a), Len(frames))) ELSE Frac(0, 1)

\* proData.<a>Angle as a number: NaN when the entry is absent (undefined).
optimalOf(proData, a) ==
    IF a \in DOMAIN proData THEN Frac(proData[a], 1) ELSE NaN

\* avgAngles.<a> - proData.<a>Angle
deviationOf(avg, optimal) ==
    IF optimal.d = 0 THEN NaN ELSE FAdd(avg, Frac(0 - optimal.n, optimal.d))

\* analyzePhase has thrown a TypeError (a property read of undefined).
phaseThrew(phase, avgAngles) ==
    [phase |-> phase, threw |-> TRUE, score |-> NaN, angles |-> avgAngles,
     deviations |-> avgAngles]

\* analyzePhase from the averages on: the scores of the four angles, the phase
\* score and the deviations; scoreAngle reads range.min of an absent range.
comparePhase(phase, avgAngles, proData, optimalRanges) ==
    IF \E a \in AngleNames : a \notin DOMAIN optimalRanges
    THEN phaseThrew(phase, avgAngles)
    ELSE
    LET scores == [hip |-> scoreAngle(avgAngles.hip, optimalOf(proData, "hip"),
                                      optimalRanges.hip),
                   knee |-> scoreAngle(avgAngles.knee, optimalOf(proData, "knee"),
                                       optimalRanges.knee),
                   shoulder |-> scoreAngle(avgAngles.shoulder, optimalOf(proData, "shoulder"),
                                           optimalRanges.shoulder),
                   elbow |-> scoreAngle(avgAngles.elbow, optimalOf(proData, "elbow"),
                                        optimalRanges.elbow)]
    IN [phase |-> phase,
        threw |-> FALSE,
        score |-> FScale(FAdd(FAdd(scores.hip, scores.knee),
                              FAdd(scores.shoulder, scores.elbow)), 1, 4),
        angles |-> avgAngles,
        deviations |-> [hip |-> deviationOf(avgAngles.hip, optimalOf(proData, "hip")),
                        knee |-> deviationOf(avgAngles.knee, optimalOf(proData, "knee")),
                        shoulder |-> deviationOf(avgAngles.shoulder,
                                                 optimalOf(proData, "shoulder")),
                        elbow |-> deviationOf(avgAngles.elbow, optimalOf(proData, "elbow"))]]

\* The averages of the four angles over the frames of a phase.
averageAngles(frames) ==
    [hip |-> avgAngle(frames, "hip"),
     knee |-> avgAngle(frames, "knee"),
     shoulder |-> avgAngle(frames, "shoulder"),
     elbow |-> avgAngle(frames, "elbow")]

\* analyzePhase: the phase's average angles, their scores and the phase score;
\* proSwimmerData.phases[phase].keyAngles throws when the phase is absent.
analyzePhase(frames, phase, proSwimmerData) ==
    IF phase \notin DOMAIN proSwimmerData.phases
    THEN phaseThrew(phase, averageAngles(frames))
    ELSE comparePhase(phase, averageAngles(frames), proSwimmerData.phases[phase],
                      proSwimmerData.optimalRanges)

-----------------------------------------------------------------------------
(* Feedback text.  A text is a sequence of fragments: a number v (hundredths) *)
(* in one of the shapes the score patterns look for, or a word w.          *)

Frag(kind, v) == [kind |-> kind, v |-> v, w |-> ""]

Word(w) == [kind |-> "word", v |-> 0, w |-> w]

\* The fragment kinds each pattern of extractScoreFromGemini matches, in order:
\* "v/10", "score: v", "rating: v", "v out of 10", "grade: v".
ScorePatterns ==
    << {"num/10", "score:num/10"},
       {"score:num", "score:num/10"},
       {"rating:num"},
       {"num out of 10"},
       {"grade:num"} >>

\* feedback.match(pattern): the index of the first matching fragment, 0 for null.
FirstMatch(text, kinds) ==
    IF \E i \in 1..Len(text) : text[i].kind \in kinds
    THEN CHOOSE i \in 1..Len(text) :
             text[i].kind \in kinds /\ \A j \in 1..(i - 1) : text[j].kind \notin kinds
    ELSE 0

\* Whether pattern k matches with a score in [0, 10].
PatternYields(text, k) ==
    /\ FirstMatch(text, ScorePatterns[k]) # 0
    /\ text[FirstMatch(text, ScorePatterns[k])].v >= 0
    /\ text[FirstMatch(text, ScorePatterns[k])].v <= 1000

\* lowerFeedback.includes(w) for some w of words.
HasWord(text, words) == \E i \in 1..Len(text) : text[i].kind = "word" /\ text[i].w \in words

\* The score of the sentiment branch.
sentimentScore(text) ==
    IF HasWord(text, {"excellent", "outstanding", "perfect"}) THEN 900
    ELSE IF HasWord(text, {"good", "strong", "solid"}) THEN 750
    ELSE IF HasWord(text, {"decent", "okay", "adequate"}) THEN 600
    ELSE IF HasWord(text, {"poor", "weak", "needs improvement"}) THEN 400
    ELSE 700

extractScoreFromGemini(text) ==
    LET hits == {k \in 1..Len(ScorePatterns) : PatternYields(text, k)}
    IN IF hits # {}
       THEN text[FirstMatch(text, ScorePatterns[CHOOSE k \in hits : \A m \in hits : k <= m])].v
       ELSE sentimentScore(text)

\* The replies of the external service the model draws from: "Score: 9.2/10",
\* "Score: 7.25/10 ... good", "A strong start" (no number), "12/10 ... rating: 4".
GeminiTexts ==
    { <<Frag("score:num/10", 920)>>,
      <<Frag("score:num/10", 725), Word("good")>>,
      <<Word("strong")>>,
      <<Frag("num/10", 1200), Frag("rating:num", 400)>> }

\* score.toFixed(1), in hundredths.
toFixed1(score) == Round1(score, 1)

\* The feedback handleGeminiAnalysis writes itself: "... Setup: a/10, Launch:
\* b/10, Entry: c/10. Overall Score: d/10. Your technique <closing> ...".
localFeedback(pa, closing) ==
    << Frag("num/10", toFixed1(pa.setupScore)), Frag("num/10", toFixed1(pa.launchScore)),
       Frag("num/10", toFixed1(pa.entryScore)),
       Frag("score:num/10", toFixed1(pa.overallScore)), Word(closing) >>

\* "Unable to fetch AI feedback. Analysis completed with pose detection only."
unavailableFeedback == <<Frag("other", 0)>>

-----------------------------------------------------------------------------
(* analyzeWithGemini and analyzePoseData (lib/pose-detection.ts)           *)

NoResponse == [kind |-> "none", success |-> FALSE, feedback |-> <<>>,
               phaseAnalysis |-> NoPhases]

\* How the fetch of /api/analyze can settle without a usable assessment: it
\* rejects, the status is not OK, the body is not JSON, the JSON has no feedback.
FailureKinds == {"neterr", "nonok", "notjson", "nofeedback"}

threwError == [threw |-> TRUE, score |-> 0, feedback |-> <<>>, phaseAnalysis |-> NoPhases]

\* The body of the try block once fetch has settled: what it returns, or that it
\* threw.
analyzeWithGeminiTry(resp) ==
    CASE resp.kind = "neterr" -> threwError      \* await fetch(...) rejects
      [] resp.kind = "nonok" -> threwError       \* throw new Error(errorData.error || ...)
      [] resp.kind = "notjson" -> threwError     \* await response.json() rejects
      [] resp.kind = "nofeedback" -> threwError  \* feedback.match is not a function
      [] resp.kind = "ok" ->
            [threw |-> FALSE,
             score |-> extractScoreFromGemini(resp.feedback),
             feedback |-> resp.feedback,
             phaseAnalysis |-> resp.phaseAnalysis]

\* A fallback whose score drops once an earlier run has left a result behind.
analyzeWithGeminiCatchWorn ==
    [threw |-> FALSE, score |-> IF result.status = "resolved" THEN 650 ELSE 700,
     feedback |-> unavailableFeedback, phaseAnalysis |-> NoPhases]

\* The catch block: the graceful fallback.
analyzeWithGeminiCatch ==
    [threw |-> FALSE, score |-> 700, feedback |-> unavailableFeedback,
     phaseAnalysis |-> NoPhases]

\* analyzeWithGemini without its catch block: what the try block throws escapes.
analyzeWithGeminiNoCatch(resp) == analyzeWithGeminiTry(resp)

analyzeWithGemini(resp) ==
    IF analyzeWithGeminiTry(resp).threw
    THEN analyzeWithGeminiCatch
    ELSE analyzeWithGeminiTry(resp)

NoAnalysis == [status |-> "none", overallScore |-> 0, feedback |-> <<>>,
               phaseAnalysis |-> NoPhases, isStart |-> FALSE, text |-> "none",
               strengths |-> <<>>, improvements |-> <<>>]

\* analyzePoseData on an empty buffer.
analyzePoseDataEmpty ==
    [NoAnalysis EXCEPT !.status = "resolved", !.text = "No pose data detected",
                       !.improvements =
                           <<"Ensure good lighting and clear visibility of the swimmer">>]

\* analyzePoseData on a non-empty buffer, once analyzeWithGemini has settled.
analyzePoseData(poseFrames, resp) ==
    LET geminiResult == analyzeWithGemini(resp)
        poseSequence == [i \in 1..Len(poseFrames) |-> poseFrames[i].keypoints]
        start == isStartMotion(poseSequence)
    IN IF geminiResult.threw
       THEN [NoAnalysis EXCEPT !.status = "rejected"]
       ELSE [status |-> "resolved",
             overallScore |-> Round1(geminiResult.score, 1),
             feedback |-> geminiResult.feedback,
             phaseAnalysis |-> geminiResult.phaseAnalysis,
             isStart |-> start.isStart,
             text |-> "AI analysis complete",
             strengths |-> <<"Advanced AI analysis completed",
                             "Movement patterns successfully detected",
                             "Pose tracking data captured",
                             "Comprehensive technique evaluation performed">>,
             improvements |-> <<"Continue practicing for consistency",
                                "Consider recording from different angles",
                                "Focus on explosive movement initiation">>]

-----------------------------------------------------------------------------
(* analyzeSwimmingStart (lib/analysis-engine.ts)                           *)

\* The score a result reports for NaN.
NaNScore == 0 - 1

\* Math.round(f * 10) / 10 of a score f in points, in hundredths of a point.
Round1F(f) == IF f.d = 0 THEN NaNScore ELSE Round1(100 * f.n, f.d)

\* yourAnalysis.phaseAnalysis?.<phase>Score, in hundredths; 0 for undefined.
heuristicScore(yourAnalysis, phase) ==
    IF yourAnalysis.phaseAnalysis.kind = "none" THEN 0
    ELSE CASE phase = "setup" -> yourAnalysis.phaseAnalysis.setupScore
           [] phase = "launch" -> yourAnalysis.phaseAnalysis.launchScore
           [] phase = "entry" -> yourAnalysis.phaseAnalysis.entryScore

\* Which operand of  phaseAnalysis?.<phase>Score || <phase>Analysis.score  is taken.
phaseScoreSource(yourAnalysis, phase) ==
    IF heuristicScore(yourAnalysis, phase) # 0 THEN "heuristic" ELSE "angle"

\* A list without its duplicates that puts the newest string first.
RECURSIVE DedupeNewestFirst(_)
DedupeNewestFirst(list) ==
    IF list = <<>> THEN <<>>
    ELSE LET front == DedupeNewestFirst(SubSeq(list, 1, Len(list) - 1))
             last == list[Len(list)]
         IN IF \E i \in 1..Len(front) : front[i] = last THEN front ELSE <<last>> \o front

\* [...new Set(list)]: first occurrences, in order.
RECURSIVE Dedupe(_)
Dedupe(list) ==
    IF list = <<>> THEN <<>>
    ELSE LET front == Dedupe(SubSeq(list, 1, Len(list) - 1))
             last == list[Len(list)]
         IN IF \E i \in 1..Len(front) : front[i] = last THEN front ELSE Append(front, last)

\* The string pushed to strengths for a phase whose angle score is >= 80.
proStrengthText ==
    [setup |-> "Setup position matches pro swimmers",
     launch |-> "Launch power comparable to professional swimmers",
     entry |-> "Entry streamline matches professional standards"]

\* The string pushed to improvements for a phase whose angle score is < 60.
proImprovementText ==
    [setup |-> "Work on setup - your angles differ significantly from pros",
     launch |-> "Improve launch explosiveness - compare to pro technique",
     entry |-> "Refine entry - study pro swimmer streamline position"]

\* if (analysis.score >= 80) strengths.push(...)
proStrength(analysis) ==
    IF analysis.score.d # 0 /\ analysis.score.n >= 80 * analysis.score.d
    THEN <<proStrengthText[analysis.phase]>> ELSE <<>>

\* else if (analysis.score < 60) improvements.push(...)
proImprovement(analysis) ==
    IF analysis.score.d # 0 /\ analysis.score.n >= 80 * analysis.score.d THEN <<>>
    ELSE IF analysis.score.d # 0 /\ analysis.score.n < 60 * analysis.score.d
    THEN <<proImprovementText[analysis.phase]>> ELSE <<>>

NoResult == [status |-> "none", overallScore |-> 0,
             phaseScores |-> [setup |-> 0, launch |-> 0, entry |-> 0],
             phaseAnalyses |-> <<>>, strengths |-> <<>>, improvements |-> <<>>,
             yourAnalysis |-> NoAnalysis, proSwimmerData |-> <<>>]

\* phaseAnalysis?.<phase>Score || <phase>Analysis.score, in points.
phaseScore(yourAnalysis, analysis) ==
    IF phaseScoreSource(yourAnalysis, analysis.phase) = "heuristic"
    THEN Frac(heuristicScore(yourAnalysis, analysis.phase), 100)
    ELSE analysis.score

\* analyzeSwimmingStart from the three phase analyses on.
assembleResult(setupAnalysis, launchAnalysis, entryAnalysis, yourAnalysis, proSwimmerData) ==
    LET phaseScores == [setup |-> phaseScore(yourAnalysis, setupAnalysis),
                        launch |-> phaseScore(yourAnalysis, launchAnalysis),
                        entry |-> phaseScore(yourAnalysis, entryAnalysis)]
        overallScore == FAdd(FAdd(FScale(phaseScores.setup, 1, 4),
                                  FScale(phaseScores.launch, 1, 2)),
                             FScale(phaseScores.entry, 1, 4))
    IN IF setupAnalysis.threw \/ launchAnalysis.threw \/ entryAnalysis.threw
       THEN [NoResult EXCEPT !.status = "rejected", !.yourAnalysis = yourAnalysis,
                             !.proSwimmerData = proSwimmerData]
       ELSE
       [status |-> "resolved",
        overallScore |-> Round1F(overallScore),
        phaseScores |-> [setup |-> Round1F(phaseScores.setup),
                         launch |-> Round1F(phaseScores.launch),
                         entry |-> Round1F(phaseScores.entry)],
        phaseAnalyses |-> [setup |-> setupAnalysis, launch |-> launchAnalysis,
                           entry |-> entryAnalysis],
        strengths |-> Dedupe(yourAnalysis.strengths \o proStrength(setupAnalysis)
                             \o proStrength(launchAnalysis) \o proStrength(entryAnalysis)),
        improvements |-> Dedupe(yourAnalysis.improvements \o proImprovement(setupAnalysis)
                                \o proImprovement(launchAnalysis)
                                \o proImprovement(entryAnalysis)),
        yourAnalysis |-> yourAnalysis,
        proSwimmerData |-> proSwimmerData]

\* analyzeSwimmingStart once analyzePoseData has settled with yourAnalysis.
continueAfterPoseData(fps, yourAnalysis, proSwimmerData) ==
    IF yourAnalysis.status = "rejected"
    THEN [NoResult EXCEPT !.status = "rejected", !.yourAnalysis = yourAnalysis]
    ELSE assembleResult(analyzePhase(phaseFrames(fps, "setup"), "setup", proSwimmerData),
                        analyzePhase(phaseFrames(fps, "launch"), "launch", proSwimmerData),
                        analyzePhase(phaseFrames(fps, "entry"), "entry", proSwimmerData),
                        yourAnalysis, proSwimmerData)

\* analyzeSwimmingStart(framePoses), resp being how the fetch settled (not read
\* for an empty buffer, which issues none).
analyzeSwimmingStart(fps, resp, proSwimmerData) ==
    continueAfterPoseData(fps,
                          IF Len(convertToPoseFrame(fps)) = 0 THEN analyzePoseDataEmpty
                          ELSE analyzePoseData(convertToPoseFrame(fps), resp),
                          proSwimmerData)

\* The score sources behind the overallScore of a result.
scoreSources(res) ==
    IF res.status # "resolved" THEN {}
    ELSE {phaseScoreSource(res.yourAnalysis, ph) : ph \in PhaseNames}

-----------------------------------------------------------------------------
(* Specification SpecPhases: a request buffer is received frame by frame,  *)
(* then segmented.                                                         *)

\* No run has been repeated.
NoPrevious == [framePoses |-> <<>>, result |-> NoResult]

\* Nothing received, collected or analysed yet.
Idle ==
    /\ poseData = <<>>
    /\ phases = NoPhases
    /\ poseSeq = <<>>
    /\ startRes = NoStart
    /\ framePoses = <<>>
    /\ frameId = 0
    /\ response = NoResponse
    /\ result = NoResult
    /\ scalesSeen = {}
    /\ prompt = <<>>
    /\ previous = NoPrevious

InitPhases == pc = "build" /\ Idle

AppendPoseData ==
    /\ pc = "build"
    /\ Len(poseData) < MaxFrames
    /\ \E f \in ServerFrames : poseData' = Append(poseData, f)
    /\ UNCHANGED <<pc, phases, startVars, pipeVars>>

DetectPhases ==
    /\ pc = "build"
    /\ Len(poseData) >= 1
    /\ phases' = [NoPhases EXCEPT !.kind = "detected",
                                  !.launchStart = detectMovementPhases(poseData).launchStart,
                                  !.entryStart = detectMovementPhases(poseData).entryStart]
    /\ pc' = "detected"
    /\ UNCHANGED <<poseData, startVars, pipeVars>>

AnalyzePhases ==
    /\ pc = "build"
    /\ phases' = analyzeSwimmingPhases(poseData)
    /\ pc' = "analysed"
    /\ UNCHANGED <<poseData, startVars, pipeVars>>

NextPhases == AppendPoseData \/ DetectPhases \/ AnalyzePhases

SpecPhases == InitPhases /\ [][NextPhases]_vars

-----------------------------------------------------------------------------
(* Specification SpecStart: a keypoint sequence is collected, then         *)
(* classified.                                                             *)

InitStart == pc = "collect" /\ Idle

AppendPoseSeq ==
    /\ pc = "collect"
    /\ Len(poseSeq) < MaxSeq
    /\ \E k \in StartFrames : poseSeq' = Append(poseSeq, k)
    /\ UNCHANGED <<pc, startRes, serverVars, pipeVars>>

IsStartMotion ==
    /\ pc = "collect"
    /\ startRes' = isStartMotion(poseSeq)
    /\ pc' = "classified"
    /\ UNCHANGED <<poseSeq, serverVars, pipeVars>>

NextStart == AppendPoseSeq \/ IsStartMotion

SpecStart == InitStart /\ [][NextStart]_vars

-----------------------------------------------------------------------------
(* Specification Spec: a video is sampled into a FramePose buffer, which   *)
(* analyzeSwimmingStart sends through analyzePoseData, analyzeWithGemini,  *)
(* the route handler and the external assessment service.                  *)

Init == pc = "idle" /\ Idle

\* analyzePosesInVideo.processFrame with a pose of more than 5 keypoints, then
\* convertToFramePose.
AppendFramePose ==
    /\ pc = "idle"
    /\ frameId < MaxVideoFrames
    /\ \E q \in ClientPoses :
          framePoses' = Append(framePoses, [frameNumber |-> frameId, pose |-> q])
    /\ frameId' = frameId + 1
    /\ UNCHANGED <<pc, serverVars, startVars, response, result, scalesSeen, prompt, previous>>

\* processFrame with no pose, too few keypoints or an exception.
DropFrame ==
    /\ pc = "idle"
    /\ frameId < MaxVideoFrames
    /\ frameId' = frameId + 1
    /\ UNCHANGED <<pc, serverVars, startVars, framePoses, response, result, scalesSeen, prompt, previous>>

\* analyzeSwimmingStart up to its first suspension: an empty buffer runs to the
\* end, any other stops at the fetch of analyzeWithGemini.
AnalyzeSwimmingStartWith(profiles) ==
    /\ pc \in {"idle", "again"}
    /\ IF framePoses = <<>>
       THEN /\ \E pro \in profiles :
                  result' = analyzeSwimmingStart(framePoses, NoResponse, pro)
            /\ scalesSeen' = scalesSeen \cup scoreSources(result')
            /\ pc' = "done"
            /\ UNCHANGED poseData
       ELSE /\ poseData' = simplifiedData(convertToPoseFrame(framePoses))
            /\ pc' = "request"
            /\ UNCHANGED <<result, scalesSeen>>
    /\ UNCHANGED <<phases, startVars, framePoses, frameId, response, prompt, previous>>

AnalyzeSwimmingStart == AnalyzeSwimmingStartWith(ProProfiles)

\* POST -> handleGeminiAnalysis up to its first suspension.
HandleGeminiAnalysis ==
    /\ pc = "request"
    /\ phases' = analyzeSwimmingPhases(poseData)
    /\ \E apiKey \in BOOLEAN :
          IF apiKey
          THEN /\ prompt' = movementData(poseData)
               /\ pc' = "gemini"
               /\ UNCHANGED response
          ELSE /\ response' = [kind |-> "ok", success |-> TRUE,
                               feedback |-> localFeedback(phases', "good"),
                               phaseAnalysis |-> phases']
               /\ pc' = "responded"
               /\ UNCHANGED prompt
    /\ UNCHANGED <<poseData, startVars, framePoses, frameId, result, scalesSeen, previous>>

\* The external service answers with a text; handleGeminiAnalysis returns it.
GeminiReplies ==
    /\ pc = "gemini"
    /\ \E text \in GeminiTexts :
          response' = [kind |-> "ok", success |-> TRUE, feedback |-> text,
                       phaseAnalysis |-> phases]
    /\ pc' = "responded"
    /\ UNCHANGED <<serverVars, startVars, framePoses, frameId, result, scalesSeen, prompt, previous>>

\* A catch block that answers with the feedback text alone, as the catch block
\* of the pose-sequence path does.
GeminiFailsBare ==
    /\ pc = "gemini"
    /\ response' = [kind |-> "ok", success |-> TRUE,
                    feedback |-> localFeedback(phases, "solid"),
                    phaseAnalysis |-> NoPhases]
    /\ pc' = "responded"
    /\ UNCHANGED <<serverVars, startVars, framePoses, frameId, result, scalesSeen, prompt, previous>>

\* The external call rejects, or answers non-OK or without text:
\* generateDetailedGeminiFeedback throws, handleGeminiAnalysis catches.
GeminiFails ==
    /\ pc = "gemini"
    /\ response' = [kind |-> "ok", success |-> TRUE,
                    feedback |-> localFeedback(phases, "solid"),
                    phaseAnalysis |-> phases]
    /\ pc' = "responded"
    /\ UNCHANGED <<serverVars, startVars, framePoses, frameId, result, scalesSeen, prompt, previous>>

\* The external call neither answers nor fails; no timer is armed on it, so
\* nothing of the program is enabled afterwards.
GeminiHangs ==
    /\ pc = "gemini"
    /\ pc' = "hung"
    /\ UNCHANGED <<serverVars, startVars, pipeVars>>

\* The client's fetch settles without a usable assessment.
FetchFails ==
    /\ pc = "request"
    /\ \E kind \in FailureKinds :
          response' = [NoResponse EXCEPT !.kind = kind]
    /\ pc' = "responded"
    /\ UNCHANGED <<serverVars, startVars, framePoses, frameId, result, scalesSeen, prompt, previous>>

\* The fetch has settled: analyzeWithGemini, analyzePoseData and
\* analyzeSwimmingStart run to the end.
ClientReceiveWith(profiles) ==
    /\ pc = "responded"
    /\ \E pro \in profiles :
          result' = analyzeSwimmingStart(framePoses, response, pro)
    /\ poseSeq' = [i \in 1..Len(framePoses) |-> convertToPoseFrame(framePoses)[i].keypoints]
    /\ startRes' = IF result'.yourAnalysis.status = "rejected" THEN startRes
                   ELSE isStartMotion(poseSeq')
    /\ scalesSeen' = scalesSeen \cup scoreSources(result')
    /\ pc' = "done"
    /\ UNCHANGED <<serverVars, framePoses, frameId, response, prompt, previous>>

ClientReceive == ClientReceiveWith(ProProfiles)

\* The next video is analysed.
NextVideo ==
    /\ pc = "done"
    /\ pc' = "idle"
    /\ poseData' = <<>>
    /\ phases' = NoPhases
    /\ poseSeq' = <<>>
    /\ startRes' = NoStart
    /\ framePoses' = <<>>
    /\ frameId' = 0
    /\ response' = NoResponse
    /\ result' = NoResult
    /\ prompt' = <<>>
    /\ UNCHANGED <<scalesSeen, previous>>

Next ==
    \/ AppendFramePose \/ DropFrame \/ AnalyzeSwimmingStart \/ HandleGeminiAnalysis
    \/ GeminiReplies \/ GeminiFails \/ GeminiHangs \/ FetchFails \/ ClientReceive

\* One video is analysed.
Spec == Init /\ [][Next]_vars

\* The route handler does not leave a request unhandled for ever, nor the client
\* a settled fetch: weak fairness of HandleGeminiAnalysis and of ClientReceive,
\* each written with its enabling condition, which only that step (or the
\* failure of the fetch) ends.
ContinuationsRun == []<>(pc # "request") /\ []<>(pc # "responded")

\* One video is analysed; the continuations of the program run, and the external
\* service, unless the call hangs, eventually answers or fails.
FairSpec ==
    Init /\ [][Next]_vars /\ WF_vars(GeminiReplies \/ GeminiFails) /\ ContinuationsRun

NextRuns == Next \/ NextVideo

\* Videos are analysed one after the other.
SpecRuns == Init /\ [][NextRuns]_vars

InitAll == (pc = "collect" \/ pc = "idle") /\ Idle

NextAll == NextStart \/ Next

\* Either a keypoint sequence is classified or a video is analysed.
SpecAll == InitAll /\ [][NextAll]_vars

\* Reference profiles with a degenerate range (min = max = optimal), with optimal
\* values outside their range, and lacking a phase, a joint's optimal angle or a
\* joint's range.
DefectiveProfiles ==
    { [phases |-> [setup |-> KeyAngles(180, 135, 45, 180),
                   launch |-> KeyAngles(180, 135, 90, 180),
                   entry |-> KeyAngles(180, 180, 180, 180)],
       optimalRanges |-> KeyAngles(Range(180, 180), Range(90, 180),
                                   Range(0, 180), Range(90, 180))],
      [phases |-> [setup |-> KeyAngles(135, 135, 45, 180),
                   launch |-> KeyAngles(135, 135, 90, 180),
                   entry |-> KeyAngles(180, 180, 180, 180)],
       optimalRanges |-> KeyAngles(Range(45, 120), Range(90, 180),
                                   Range(0, 180), Range(90, 180))],
      [phases |-> [setup |-> KeyAngles(90, 135, 45, 180),
                   entry |-> KeyAngles(180, 180, 180, 180)],
       optimalRanges |-> KeyAngles(Range(45, 180), Range(90, 180),
                                   Range(0, 180), Range(90, 180))],
      [phases |-> [setup |-> [knee |-> 135, shoulder |-> 45, elbow |-> 180],
                   launch |-> KeyAngles(135, 135, 90, 180),
                   entry |-> KeyAngles(180, 180, 180, 180)],
       optimalRanges |-> KeyAngles(Range(45, 180), Range(90, 180),
                                   Range(0, 180), Range(90, 180))],
      [phases |-> [setup |-> KeyAngles(90, 135, 45, 180),
                   launch |-> KeyAngles(135, 135, 90, 180),
                   entry |-> KeyAngles(180, 180, 180, 180)],
       optimalRanges |-> [knee |-> Range(90, 180), shoulder |-> Range(0, 180),
                          elbow |-> Range(90, 180)]] }

\* Every content of pro-swimmer-data.json an analysis is run against here.
ReferenceProfiles == ProProfiles \cup DefectiveProfiles

AnalyzeSwimmingStartRef == AnalyzeSwimmingStartWith(ReferenceProfiles)

ClientReceiveRef == ClientReceiveWith(ReferenceProfiles)

NextRef ==
    \/ AppendFramePose \/ DropFrame \/ AnalyzeSwimmingStartRef \/ HandleGeminiAnalysis
    \/ GeminiReplies \/ GeminiFails \/ GeminiHangs \/ FetchFails \/ ClientReceiveRef

\* One video is analysed against any reference profile.
SpecRef == Init /\ [][NextRef]_vars

\* The feedback of the pose-sequence request, by where it came from.
sequenceFeedback(source) ==
    [kind |-> source, success |-> TRUE, feedback |-> <<>>, phaseAnalysis |-> NoPhases]

\* AnalyzePage.analyzeVideo up to its fetch of /api/analyze: the keypoints of
\* the detected frames are posted as poseSequence; no frame is an error.
AnalyzeVideo ==
    /\ pc = "idle"
    /\ IF framePoses = <<>>
       THEN pc' = "failed" /\ UNCHANGED poseSeq
       ELSE /\ poseSeq' = [i \in 1..Len(framePoses) |->
                              convertToPoseFrame(framePoses)[i].keypoints]
            /\ pc' = "sequenceRequest"
    /\ UNCHANGED <<serverVars, startRes, framePoses, frameId, response, result, scalesSeen,
                   prompt, previous>>

\* POST with a poseSequence: without an API key the fallback feedback is
\* returned, with one generateGeminiFeedback sends its prompt.
PostPoseSequence ==
    /\ pc = "sequenceRequest"
    /\ \E apiKey \in BOOLEAN :
          IF apiKey
          THEN /\ prompt' = poseText(poseSeq)
               /\ pc' = "sequenceGemini"
               /\ UNCHANGED response
          ELSE /\ response' = sequenceFeedback("fallback")
               /\ pc' = "sequenceResponded"
               /\ UNCHANGED prompt
    /\ UNCHANGED <<serverVars, startVars, framePoses, frameId, result, scalesSeen, previous>>

\* The external service answers the pose-sequence prompt.
SequenceGeminiReplies ==
    /\ pc = "sequenceGemini"
    /\ response' = sequenceFeedback("gemini")
    /\ pc' = "sequenceResponded"
    /\ UNCHANGED <<serverVars, startVars, framePoses, frameId, result, scalesSeen, prompt, previous>>

\* The external call fails: POST catches and returns the fallback feedback.
SequenceGeminiFails ==
    /\ pc = "sequenceGemini"
    /\ response' = sequenceFeedback("fallback")
    /\ pc' = "sequenceResponded"
    /\ UNCHANGED <<serverVars, startVars, framePoses, frameId, result, scalesSeen, prompt, previous>>

NextSequence ==
    \/ AnalyzeVideo \/ PostPoseSequence \/ SequenceGeminiReplies \/ SequenceGeminiFails

NextRequests == Next \/ NextSequence

\* One video is analysed from either page: the requests of both reach the route.
SpecRequests == Init /\ [][NextRequests]_vars

\* analyzeSwimmingStart is called once more after a run in which the external
\* assessment was unavailable, on the buffer as it is; the result of the first
\* run is still held.
RunAgain ==
    /\ pc = "done"
    /\ previous = NoPrevious
    /\ response.kind \in FailureKinds
    /\ previous' = [framePoses |-> framePoses, result |-> result]
    /\ response' = NoResponse
    /\ pc' = "again"
    /\ UNCHANGED <<serverVars, startVars, framePoses, frameId, result, scalesSeen, prompt>>

NextTwice == Next \/ RunAgain

\* One video is analysed, and analysed again after an unavailable assessment.
SpecTwice == Init /\ [][NextTwice]_vars

\* No joint present in two consecutive frames changes position between them.
ZeroMovement(ps) ==
    \A i \in 1..(Len(ps) - 1) : \A j \in ClientJoints :
        (ps[i][j].p /\ ps[i + 1][j].p) =>
            (ps[i][j].x = ps[i + 1][j].x /\ ps[i][j].y = ps[i + 1][j].y)

-----------------------------------------------------------------------------
(* C1: for every buffer of N >= 1 frames the boundaries returned by        *)
(* detectMovementPhases satisfy 0 <= launchStart <= entryStart <= N.       *)
C1_BoundariesOrdered ==
    pc = "detected" =>
        /\ 0 <= phases.launchStart
        /\ phases.launchStart <= phases.entryStart
        /\ phases.entryStart <= Len(poseData)

(* C2: for every buffer of N >= 3 frames the three slices taken by         *)
(* analyzeSwimmingPhases are each non-empty.                               *)
C2_SlicesNonEmpty ==
    (pc = "analysed" /\ Len(poseData) >= 3) =>
        /\ phases.setupLen >= 1
        /\ phases.launchLen >= 1
        /\ phases.entryLen >= 1

(* C5: for every buffer with zero movement between all consecutive frames, *)
(* isStartMotion with confidence requested returns isStart = false and     *)
(* confidence = 0.                                                         *)
C5_ZeroMovementNoConfidence ==
    (pc = "classified" /\ ZeroMovement(poseSeq)) =>
        (~startRes.isStart /\ startRes.confidence = 0)

-----------------------------------------------------------------------------
(* C3: if the external assessment call never completes, the analysis still *)
(* eventually returns its locally computed scores: a hung external call is *)
(* always followed by the completion of analyzeSwimmingStart.              *)
C3_HungCallStillReturns == (pc = "hung") ~> (pc = "done")

\* The angle-based score analyzeSwimmingStart reports for a phase of the buffer.
AngleScoreOf(ph) ==
    Round1F(analyzePhase(phaseFrames(framePoses, ph), ph, result.proSwimmerData).score)

(* C4: whenever the fetch of the assessment settles as a network failure,  *)
(* a non-OK status, a non-JSON body or a JSON without feedback,            *)
(* analyzePoseData on the non-empty buffer resolves with a result record   *)
(* and analyzeSwimmingStart reports the angle-based phase scores.          *)
C4_UnavailableFallsBack ==
    (pc = "done" /\ response.kind \in FailureKinds) =>
        /\ framePoses # <<>>
        /\ result.yourAnalysis.status = "resolved"
        /\ result.status = "resolved"
        /\ \A ph \in PhaseNames : result.phaseScores[ph] = AngleScoreOf(ph)

\* A 3-frame buffer was analysed after the assessment came back without feedback.
C4_Witness ==
    /\ pc = "done"
    /\ response.kind = "nofeedback"
    /\ Len(framePoses) = 3
    /\ result.status = "resolved"
    /\ result.phaseScores["launch"] > 0

\* isStartMotion has returned: on its own, or inside analyzePoseData.
StartClassified ==
    \/ pc = "classified"
    \/ (pc = "done" /\ framePoses # <<>> /\ result.status = "resolved")

(* C6: a short buffer never makes the pipeline raise: isStartMotion with   *)
(* fewer than 5 frames or fewer than 2 velocity samples returns isStart =  *)
(* false, confidence = 0 and a diagnostic; analyzeSwimmingPhases with      *)
(* fewer than 3 frames returns the default phase analysis; analyzePoseData *)
(* with an empty buffer returns overallScore 0 and an explanatory text,    *)
(* and no request is issued.                                               *)
C6_ShortBuffersNeverRaise ==
    /\ (StartClassified /\ (Len(poseSeq) < 5 \/ Len(horizontalVelocities(poseSeq)) < 2))
       => (~startRes.isStart /\ startRes.confidence = 0 /\ startRes.error # "")
    /\ (phases.kind # "none" /\ Len(poseData) < 3) => phases = getDefaultPhaseAnalysis
    /\ (pc = "done" /\ framePoses = <<>>)
       => /\ result.yourAnalysis.status = "resolved"
          /\ result.yourAnalysis.overallScore = 0
          /\ result.yourAnalysis.text = "No pose data detected"
          /\ poseData = <<>>
          /\ response = NoResponse
          /\ phases = NoPhases

\* Two frames went through the whole pipeline: the server answered with the
\* default phase analysis and isStartMotion found the sequence too short.
C6_Witness ==
    /\ pc = "done"
    /\ Len(framePoses) = 2
    /\ phases = getDefaultPhaseAnalysis
    /\ startRes.error = "Sequence too short"
    /\ result.status = "resolved"

\* The acceptance threshold of checkFullBodyVisible, in hundredths.
visibilityThreshold == 50

\* The buffer with every joint whose score is below the threshold removed.
VisibleOnly(fps) ==
    [i \in 1..Len(fps) |->
        [fps[i] EXCEPT !.pose.keypoints =
            [j \in ClientJoints |->
                IF fps[i].pose.keypoints[j].p
                   /\ fps[i].pose.keypoints[j].score < visibilityThreshold
                THEN PAbsent ELSE fps[i].pose.keypoints[j]]]]

(* C7: a joint whose visibility is below the acceptance threshold is       *)
(* treated as absent by every consumer: the payload (movement, posture,    *)
(* full-body flag) and the phase angles are those of the buffer without    *)
(* its low-visibility joints.                                              *)
C7_LowVisibilityAbsent ==
    (pc = "done" /\ framePoses # <<>> /\ result.status = "resolved") =>
        /\ poseData = simplifiedData(convertToPoseFrame(VisibleOnly(framePoses)))
        /\ \A ph \in PhaseNames :
              result.phaseAnalyses[ph].angles =
                 analyzePhase(phaseFrames(VisibleOnly(framePoses), ph), ph,
                              result.proSwimmerData).angles

\* The left or the right triplet of angle a is found in the pose.
TripletAvailable(pose, a) ==
    \/ tripletFound(pose.keypoints, AngleTriplets[a][1])
    \/ tripletFound(pose.keypoints, AngleTriplets[a][2])

\* The frames of phase ph in which the triplet of angle a is available.
AvailableFrames(ph, a) ==
    SelectSeq(phaseFrames(framePoses, ph), LAMBDA fp : TripletAvailable(fp.pose, a))

(* C8: the per-phase average of each joint angle is taken only over the    *)
(* frames of the phase in which the angle's triplet is available; a frame  *)
(* missing the triplet does not count as an angle of 0.                    *)
C8_AverageOverAvailable ==
    (pc = "done" /\ result.status = "resolved") =>
        \A ph \in PhaseNames : \A a \in AngleNames :
            AvailableFrames(ph, a) # <<>> =>
                result.phaseAnalyses[ph].angles[a] =
                    Reduce(Frac(sumAngle(AvailableFrames(ph, a), a),
                                Len(AvailableFrames(ph, a))))

(* C9: the overallScore returned by analyzeSwimmingStart is on one scale   *)
(* in every execution: no two executions derive it one from the 0-10       *)
(* heuristic phase scores and the other from the 0-100 angle scores.       *)
C9_OneScale == Cardinality(scalesSeen) <= 1

\* The text came from the external service and one of the patterns finds a score
\* in [0, 10] in it.
ExternalScoreAvailable ==
    /\ response.kind = "ok"
    /\ response.feedback \in GeminiTexts
    /\ \E k \in 1..Len(ScorePatterns) : PatternYields(response.feedback, k)

\* 0.25 x setup + 0.50 x launch + 0.25 x entry of the phase scores of the result.
WeightedOverall ==
    Round1F(FAdd(FAdd(FScale(phaseScore(result.yourAnalysis, result.phaseAnalyses.setup), 1, 4),
                      FScale(phaseScore(result.yourAnalysis, result.phaseAnalyses.launch), 1, 2)),
                 FScale(phaseScore(result.yourAnalysis, result.phaseAnalyses.entry), 1, 4)))

(* C10: when the external service returns a text with a parsable score in  *)
(* [0, 10], that score rounded to one decimal is the overallScore of the   *)
(* result; the weighted combination of the phase scores is the             *)
(* overallScore only when no external score is available.                  *)
C10_ExternalScoreWins ==
    (pc = "done" /\ result.status = "resolved") =>
        IF ExternalScoreAvailable
        THEN result.overallScore = Round1(extractScoreFromGemini(response.feedback), 1)
        ELSE result.overallScore = WeightedOverall

-----------------------------------------------------------------------------
(* C11: for every buffer of N >= 3 frames the overallScore returned by     *)
(* analyzeSwimmingPhases is 0.25 x setupScore + 0.50 x launchScore +       *)
(* 0.25 x entryScore of the same result, rounded to one decimal place: a   *)
(* whole number of tenths at most half a tenth away from the weighted sum. *)
C11_OverallIsWeighted ==
    (pc = "analysed" /\ Len(poseData) >= 3) =>
        LET exact == 25 * phases.setupScore + 50 * phases.launchScore
                     + 25 * phases.entryScore
        IN /\ phases.overallScore % 10 = 0
           /\ Abs(100 * phases.overallScore - exact) <= 500

\* A buffer of 3 or more frames analysed with three different phase scores.
C11_Witness ==
    /\ pc = "analysed"
    /\ Len(poseData) >= 3
    /\ phases.setupScore # phases.launchScore
    /\ phases.launchScore # phases.entryScore
    /\ phases.setupScore # phases.entryScore

\* The profile has every phase, every optimal angle and every range.
CompleteProfile(pro) ==
    /\ \A ph \in PhaseNames :
          ph \in DOMAIN pro.phases /\ \A a \in AngleNames : a \in DOMAIN pro.phases[ph]
    /\ \A a \in AngleNames : a \in DOMAIN pro.optimalRanges

\* A number in [0, 100].
InPercent(f) == f.d # 0 /\ f.n >= 0 /\ f.n <= 100 * f.d

\* The score scoreAngle gives the result's average of angle a in phase ph.
JointScore(ph, a) ==
    scoreAngle(result.phaseAnalyses[ph].angles[a],
               optimalOf(result.proSwimmerData.phases[ph], a),
               result.proSwimmerData.optimalRanges[a])

(* C12: for every averaged angle and every reference entry (an optimal     *)
(* value and a {min, max} range, the optimal value possibly outside the    *)
(* range, the range possibly degenerate) scoreAngle returns a number in    *)
(* [0, 100], and so each angle-comparator phase score is in [0, 100].      *)
C12_AngleScoresInPercent ==
    (pc = "done" /\ result.status = "resolved" /\ CompleteProfile(result.proSwimmerData)) =>
        \A ph \in PhaseNames :
            /\ \A a \in AngleNames : InPercent(JointScore(ph, a))
            /\ InPercent(result.phaseAnalyses[ph].score)

(* C13: for every phase and every reference profile entry, when the        *)
(* phase's average hip angle is exactly the reference optimal hip angle of *)
(* that phase, the hip score returned by scoreAngle is 100.                *)
C13_OptimalHipScoresFull ==
    (pc = "done" /\ result.status = "resolved" /\ CompleteProfile(result.proSwimmerData)) =>
        \A ph \in PhaseNames :
            result.phaseAnalyses[ph].angles.hip
                = Frac(result.proSwimmerData.phases[ph].hip, 1)
            => JointScore(ph, "hip") = Frac(100, 1)

(* C14: if the reference profile lacks a required entry (a phase, a        *)
(* joint's optimal angle or a joint's range) analyzeSwimmingStart aborts   *)
(* with an error: it never returns an AnalysisResult computed against such *)
(* a profile.                                                              *)
C14_MissingEntryAborts ==
    (pc = "done" /\ result.status = "resolved") => CompleteProfile(result.proSwimmerData)

(* C15: no request sent to the external assessment service contains raw    *)
(* joint coordinates: on every path that reaches it the per-frame data is  *)
(* limited to visibility flags, scalar movement and posture class.         *)
C15_NoCoordinatesSent ==
    \A i \in 1..Len(prompt) : \A k \in 1..Len(prompt[i]) :
        prompt[i][k].field \in {"visibility", "movement", "posture"}

\* A second run has ended on the buffer and against the profile of the first,
\* the external assessment unavailable both times.
RepeatedRun ==
    /\ pc = "done"
    /\ previous # NoPrevious
    /\ framePoses = previous.framePoses
    /\ response.kind \in FailureKinds
    /\ result.proSwimmerData = previous.result.proSwimmerData

EntrySlice == Slice(poseData, phases.entryStart, Len(poseData))

\* The average movement of the frames lies strictly between 0.003 and 0.015.
InControlledBand(frames) ==
    /\ SumSeq(MovementsOf(frames)) > 3 * StartLcm * Len(frames)
    /\ SumSeq(MovementsOf(frames)) < 15 * StartLcm * Len(frames)

(* C17: for every non-empty entry slice the entry heuristic score is       *)
(* min(10, 6.0 + 1.5 if some frame is 'streamlined' + 1.0 if some frame    *)
(* has full-body visibility + 0.5 if the average movement lies in the      *)
(* controlled band); no other posture earns credit.                        *)
C17_EntryCredits ==
    (pc = "analysed" /\ Len(poseData) >= 3 /\ Len(EntrySlice) > 0) =>
        phases.entryScore =
            Min2(1000,
                 600 + (IF \E i \in 1..Len(EntrySlice) : EntrySlice[i].posture = "streamlined"
                        THEN 150 ELSE 0)
                     + (IF \E i \in 1..Len(EntrySlice) : EntrySlice[i].hasFullBody
                        THEN 100 ELSE 0)
                     + (IF InControlledBand(EntrySlice) THEN 50 ELSE 0))

\* Sequences of 5 frames alternating between two keypoint maps.
AlternatingSeqs ==
    {[i \in 1..5 |-> IF i % 2 = 1 THEN a ELSE b] : a \in StartFrames, b \in StartFrames}

\* What isStartMotion returns for the alternating sequences.
AlternatingResults == {isStartMotion(qs) : qs \in AlternatingSeqs}

\* The sequence had at least 5 frames and at least 2 velocity samples.
HasVelocityData(r) == r.error = ""

(* C18: the confidence returned by isStartMotion is monotone in the        *)
(* maximum horizontal velocity: of two buffers with at least 5 frames and  *)
(* 2 valid velocity samples each, the one with the greater or equal        *)
(* maximum velocity sample has the greater or equal confidence.            *)
C18_ConfidenceMonotone ==
    (pc = "classified" /\ HasVelocityData(startRes)) =>
        \A r \in AlternatingResults :
            HasVelocityData(r) =>
                /\ startRes.maxVelocity >= r.maxVelocity => startRes.confidence >= r.confidence
                /\ r.maxVelocity >= startRes.maxVelocity => r.confidence >= startRes.confidence

-----------------------------------------------------------------------------
(* Buffers of a swimmer who does not move: every sampled frame shows a     *)
(* pose in which no joint has left the place it had in the frame before.   *)

\* The number of frames of a still buffer.
StillLen == 10

\* The poses a still buffer is built from.
StillPoses ==
    { PoseOf(0, FALSE, "straight", "down", TRUE, 90),
      PoseOf(64, FALSE, "bent", "forward", TRUE, 90),
      PoseOf(64, FALSE, "none", "forward", TRUE, 90),
      PoseOf(128, TRUE, "rightOnly", "forward", TRUE, 90) }

\* Every joint the two poses both show is at the same pixel in both.
SamePlace(p, q) ==
    \A j \in ClientJoints :
        (p.keypoints[j].p /\ q.keypoints[j].p) =>
            (p.keypoints[j].x = q.keypoints[j].x /\ p.keypoints[j].y = q.keypoints[j].y)

\* processFrame and convertToFramePose for a frame in which nothing has moved.
AppendStillPose ==
    /\ pc = "idle"
    /\ frameId < StillLen
    /\ \E q \in StillPoses :
          /\ framePoses # <<>> => SamePlace(framePoses[Len(framePoses)].pose, q)
          /\ framePoses' = Append(framePoses, [frameNumber |-> frameId, pose |-> q])
    /\ frameId' = frameId + 1
    /\ UNCHANGED <<pc, serverVars, startVars, response, result, scalesSeen, prompt, previous>>

\* analyzeSwimmingStart on a buffer of StillLen frames.
AnalyzeSwimmingStartStill ==
    /\ Len(framePoses) = StillLen
    /\ AnalyzeSwimmingStart

NextStill ==
    \/ AppendStillPose \/ AnalyzeSwimmingStartStill \/ HandleGeminiAnalysis
    \/ GeminiReplies \/ GeminiFails \/ GeminiHangs \/ FetchFails \/ ClientReceive

\* One video of a motionless swimmer is analysed.
SpecStill == Init /\ [][NextStill]_vars

(* C19: for every 10-frame buffer with zero movement between all          *)
(* consecutive frames isStart is false, the setup, launch and entry       *)
(* heuristic scores are all the base value 6.0 and overallScore is 6.0.   *)
C19_StillBufferGetsBase ==
    (/\ pc = "done"
     /\ Len(poseSeq) = StillLen
     /\ ZeroMovement(poseSeq)
     /\ phases.kind = "analysed") =>
        /\ ~startRes.isStart
        /\ phases.setupScore = baseScore
        /\ phases.launchScore = baseScore
        /\ phases.entryScore = baseScore
        /\ phases.overallScore = baseScore

\* The strings analyzeSwimmingStart collects before it removes duplicates.
ContributedStrengths ==
    result.yourAnalysis.strengths
    \o proStrength(result.phaseAnalyses.setup)
    \o proStrength(result.phaseAnalyses.launch)
    \o proStrength(result.phaseAnalyses.entry)

ContributedImprovements ==
    result.yourAnalysis.improvements
    \o proImprovement(result.phaseAnalyses.setup)
    \o proImprovement(result.phaseAnalyses.launch)
    \o proImprovement(result.phaseAnalyses.entry)

\* The index of the first occurrence of s in list.
FirstIndex(list, s) == CHOOSE i \in 1..Len(list) : list[i] = s /\ \A j \in 1..(i - 1) : list[j] # s

\* out holds every string of list exactly once, in the order of first occurrence.
ExactlyOnceInOrder(out, list) ==
    /\ \A i, j \in 1..Len(out) : i # j => out[i] # out[j]
    /\ {out[i] : i \in 1..Len(out)} = {list[i] : i \in 1..Len(list)}
    /\ \A i, j \in 1..Len(out) : i < j => FirstIndex(list, out[i]) < FirstIndex(list, out[j])

(* C20: the strengths list and the improvements list of the result of     *)
(* analyzeSwimmingStart each hold every string contributed by the local   *)
(* or external analysis and by the pro comparison exactly once, in the    *)
(* order of first occurrence.                                             *)
C20_ListsExactlyOnceInOrder ==
    (pc = "done" /\ result.status = "resolved") =>
        /\ ExactlyOnceInOrder(result.strengths, ContributedStrengths)
        /\ ExactlyOnceInOrder(result.improvements, ContributedImprovements)

\* A result whose lists hold strings of the analysis and of the pro comparison.
C20_Witness ==
    /\ pc = "done" /\ result.status = "resolved"
    /\ Len(result.yourAnalysis.strengths) > 0
    /\ Len(result.strengths) > Len(result.yourAnalysis.strengths)
    /\ Len(result.improvements) > Len(result.yourAnalysis.improvements)

\* Every slice poseData.slice(a, b) of the request buffer.
SlicesOf(pd) == {Slice(pd, a, b) : a \in 0..Len(pd), b \in 0..Len(pd)}

\* A heuristic score (hundredths of a point) lies in [0, 10].
InTen(score) == score >= 0 /\ score <= 1000

(* C21: every heuristic phase score returned by analyzeSetupPhase,        *)
(* analyzeLaunchPhase and analyzeEntryPhase, for every slice of frames    *)
(* (empty or not, any posture, visibility and movement), lies in [0,10].  *)
C21_HeuristicScoresInTen ==
    /\ \A frames \in SlicesOf(poseData) :
          /\ InTen(analyzeSetupPhase(frames))
          /\ InTen(analyzeLaunchPhase(frames))
          /\ InTen(analyzeEntryPhase(frames))
    /\ pc = "analysed" =>
          InTen(phases.setupScore) /\ InTen(phases.launchScore) /\ InTen(phases.entryScore)

\* A buffer analysed with a launch slice that earns every launch credit.
C21_Witness ==
    /\ pc = "analysed" /\ phases.kind = "analysed"
    /\ phases.launchLen > 0
    /\ phases.launchScore = 950

-----------------------------------------------------------------------------
(* Request buffers of a swimmer who leaves the block in two steps: the     *)
(* trunk and the nose at abscissa 0, 0.16 or 0.5 in every frame.           *)

OnsetFrames ==
    { SFrame(TRUE, 0, 300, FALSE, 0, TRUE, 0, "upright"),
      SFrame(TRUE, 160, 300, FALSE, 0, TRUE, 0, "transitioning"),
      SFrame(TRUE, 500, 300, FALSE, 0, TRUE, 0, "streamlined") }

AppendOnsetFrame ==
    /\ pc = "build"
    /\ Len(poseData) < MaxFrames
    /\ \E f \in OnsetFrames : poseData' = Append(poseData, f)
    /\ UNCHANGED <<pc, phases, startVars, pipeVars>>

NextOnset == AppendOnsetFrame \/ DetectPhases

SpecOnset == InitPhases /\ [][NextOnset]_vars

\* The smoothed movements of the request buffer.
SmoothedOf(pd) == smoothedMovements(calculateHorizontalMovements(pd), Len(pd))

\* The explosive-onset test as the specification words it: the smoothed movement
\* at i exceeds the spike threshold and is at least 2.5 times the mean of the
\* preceding (up to 3) smoothed samples.
OnsetAt(sm, i) ==
    /\ sm[i] > Smoothed(spikeThreshold)
    /\ 2 * Min2(3, i) * sm[i] >= 5 * SumFn(sm, Max2(0, i - 3), i - 1)

OnsetIndices(pd) == {i \in 1..(Len(pd) - 1) : OnsetAt(SmoothedOf(pd), i)}

(* C22: when some index passes the explosive-onset test, findLaunchStart  *)
(* returns the first index i >= 1 whose smoothed movement exceeds the     *)
(* spike threshold and is at least 2.5 times the mean of the preceding 3  *)
(* smoothed samples; no later tier is consulted.                          *)
C22_FirstOnsetIsLaunch ==
    (pc = "detected" /\ OnsetIndices(poseData) # {}) =>
        /\ phases.launchStart \in OnsetIndices(poseData)
        /\ \A i \in OnsetIndices(poseData) : phases.launchStart <= i

\* The sustained test as the specification words it: the 4 smoothed samples
\* from i each exceed the sustained threshold and their mean is at least 1.8
\* times that threshold.
SustainedAt(sm, i) ==
    /\ \A j \in 0..(consecutiveFrames - 1) : sm[i + j] > Smoothed(baseThreshold)
    /\ 10 * SumFn(sm, i, i + consecutiveFrames - 1)
           >= 18 * consecutiveFrames * Smoothed(baseThreshold)

\* The starts of the windows of 4 samples inside the buffer, the last window included.
SustainedIndices(pd) ==
    {i \in 1..(Len(pd) - consecutiveFrames) : SustainedAt(SmoothedOf(pd), i)}

\* The last two tiers: the global maximum when it exceeds the base threshold,
\* else 33% of the buffer.
LaterTiers(pd) ==
    LET n == Len(pd)
        sm == SmoothedOf(pd)
    IN IF MaxFn(sm, n) > Smoothed(baseThreshold)
       THEN Max2(1, IndexOf(sm, n, MaxFn(sm, n)))
       ELSE Max2(1, (n * 33) \div 100)

(* C23: when no index passes the explosive-onset test, findLaunchStart    *)
(* returns the first index i >= 1 such that the 4 smoothed samples        *)
(* i..i+3 each exceed the sustained threshold and their mean is at least  *)
(* 1.8 times that threshold, for every such window inside the buffer,     *)
(* the one ending at the last frame included; only if there is no such    *)
(* window does it fall back to the global maximum and then to 33%.        *)
C23_FirstSustainedIsLaunch ==
    (pc = "detected" /\ OnsetIndices(poseData) = {}) =>
        IF SustainedIndices(poseData) # {}
        THEN /\ phases.launchStart \in SustainedIndices(poseData)
             /\ \A i \in SustainedIndices(poseData) : phases.launchStart <= i
        ELSE phases.launchStart = LaterTiers(poseData)

\* The post-launch frame indices at which movement is below 40% of the
\* post-launch peak, counted from the frame after the peak to the last frame.
DropIndices(mv, n, launchStart) ==
    LET len == Max2(0, n - launchStart)
        post == [i \in 0..(len - 1) |-> mv[launchStart + i]]
    IN IF len = 0 THEN {}
       ELSE LET peak == MaxFn(post, len)
            IN {launchStart + i : i \in {k \in (IndexOf(post, len, peak) + 1)..(len - 1) :
                                            10 * post[k] < 4 * peak}}

(* C24: when no water-entry signal is found, the entry start is the first *)
(* post-launch frame index at which movement is below 40% of the          *)
(* post-launch peak; only when no post-launch frame satisfies this is it  *)
(* launchStart + floor(0.7 x number of post-launch frames), capped at     *)
(* N-1.                                                                   *)
C24_EntryAtFirstDrop ==
    (pc = "detected" /\ detectWaterEntry(poseData) = 0 - 1) =>
        LET n == Len(poseData)
            mv == calculateHorizontalMovements(poseData)
            launchStart == findLaunchStart(mv, n)
            drops == DropIndices(mv, n, launchStart)
        IN IF drops # {}
           THEN phases.entryStart \in drops /\ \A i \in drops : phases.entryStart <= i
           ELSE phases.entryStart
                    = Min2(n - 1, launchStart + (Max2(0, n - launchStart) * 7) \div 10)

\* The boundaries the server computes for a FramePose buffer sent by analyzeWithGemini.
ServerBoundaries(fps) ==
    LET pa == analyzeSwimmingPhases(simplifiedData(convertToPoseFrame(fps)))
    IN <<pa.launchStart, pa.entryStart>>

\* Every FramePose buffer of n frames.
BuffersOfLen(n) ==
    {[i \in 1..n |-> [frameNumber |-> i - 1, pose |-> q[i]]] : q \in [1..n -> ClientPoses]}

(* C25: in the end-to-end path the detected phase boundaries respond to   *)
(* the motion in the buffer: a buffer of N >= 3 frames has a counterpart  *)
(* with the same number of frames and other joint trajectories for which  *)
(* the server computes different (launchStart, entryStart).               *)
C25_BoundariesRespondToMotion ==
    (phases.kind = "analysed" /\ Len(framePoses) >= 3) =>
        \E other \in BuffersOfLen(Len(framePoses)) :
            ServerBoundaries(other) # <<phases.launchStart, phases.entryStart>>

\* The response carries the feedback text handleGeminiAnalysis writes itself.
LocallyGenerated(resp) ==
    /\ resp.kind = "ok"
    /\ resp.feedback \in {localFeedback(resp.phaseAnalysis, "good"),
                          localFeedback(resp.phaseAnalysis, "solid")}

(* C26: when the server answers with its locally generated feedback text  *)
(* (no API key, or the Gemini call failed), the score the client extracts *)
(* from that text and reports as overallScore in analyzePoseData equals   *)
(* phaseAnalysis.overallScore of the same response.                       *)
C26_ExtractedIsOverall ==
    (pc = "done" /\ LocallyGenerated(response) /\ result.yourAnalysis.status = "resolved") =>
        result.yourAnalysis.overallScore = response.phaseAnalysis.overallScore

\* The buffer positions (from 0) of the frames the heuristic score of a phase is
\* computed over: the slices analyzeSwimmingPhases takes at its boundaries.
HeuristicIndices(phase) ==
    LET n == Len(poseData)
    IN IF phase = "setup" THEN 0..(Min2(phases.launchStart, n) - 1)
       ELSE IF phase = "launch"
            THEN Min2(phases.launchStart, n)..(Min2(phases.entryStart, n) - 1)
       ELSE Min2(phases.entryStart, n)..(n - 1)

\* The buffer positions of the frames analyzeSwimmingStart averages the angles
\* of a phase over.
AngleIndices(phase) ==
    {i \in 0..(Len(framePoses) - 1) :
        identifyPhase(framePoses[i + 1].frameNumber, Len(framePoses)) = phase}

(* C27: for each of the three phases the heuristic phase score and the    *)
(* angle averages are computed over the same set of frames of the buffer, *)
(* for every buffer including buffers with gaps in frameId.               *)
C27_SameFramesPerPhase ==
    (pc = "done" /\ phases.kind = "analysed" /\ result.status = "resolved") =>
        \A phase \in PhaseNames : HeuristicIndices(phase) = AngleIndices(phase)

(* C28: handleGeminiAnalysis computes the heuristic phase analysis before *)
(* it invokes the external service, and the phaseAnalysis it returns is   *)
(* the same in all three outcomes (API key missing, external call         *)
(* succeeded, external call failed): the analysis of the request buffer;  *)
(* every one of these outcomes is a response with success = true.         *)
C28_PhaseAnalysisInEveryOutcome ==
    /\ pc = "gemini" => phases = analyzeSwimmingPhases(poseData)
    /\ (pc = "responded" /\ response.kind = "ok") =>
          /\ response.success
          /\ response.phaseAnalysis = analyzeSwimmingPhases(poseData)

\* The external call has failed on a buffer long enough to be segmented, and
\* the handler has answered.
C28_Witness ==
    /\ pc = "responded" /\ response.kind = "ok"
    /\ prompt # <<>>
    /\ response.feedback = localFeedback(phases, "solid")
    /\ response.phaseAnalysis.kind = "analysed"

\* a >= b for two numbers that are not NaN.
FGe(a, b) == a.n * b.d >= b.n * a.d

\* The angle lies in [range.min, range.max].
InRange(actual, range) ==
    actual.n >= range.min * actual.d /\ actual.n <= range.max * actual.d

\* min <= optimal <= max and min < max.
WellFormedEntry(optimal, range) ==
    /\ optimal.d # 0
    /\ range.min < range.max
    /\ InRange(optimal, range)

\* The whole angles calculateAngle can return.
WholeAngles == {Frac(k, 1) : k \in 0..180}

(* C29: scoreAngle never ranks an out-of-range angle above an in-range    *)
(* angle: for every reference entry with min <= optimal <= max and        *)
(* min < max, any actual angle inside [min, max] scores at least as high  *)
(* as any actual angle outside [min, max].                                *)
C29_InRangeNotBelowOutOfRange ==
    (pc = "done" /\ result.status = "resolved" /\ CompleteProfile(result.proSwimmerData)) =>
        \A ph \in PhaseNames, a \in AngleNames :
            LET actual == result.phaseAnalyses[ph].angles[a]
                optimal == optimalOf(result.proSwimmerData.phases[ph], a)
                range == result.proSwimmerData.optimalRanges[a]
            IN (WellFormedEntry(optimal, range) /\ actual.d # 0) =>
                  \A other \in WholeAngles :
                      /\ (InRange(actual, range) /\ ~InRange(other, range)) =>
                            FGe(JointScore(ph, a), scoreAngle(other, optimal, range))
                      /\ (~InRange(actual, range) /\ InRange(other, range)) =>
                            FGe(scoreAngle(other, optimal, range), JointScore(ph, a))

\* The feedback strings of the lowest band.
LowestBandTexts ==
    {generateSetupFeedback(0), generateLaunchFeedback(0), generateEntryFeedback(0)}

\* A scorer's score is at least 6.0 and its feedback is not of the lowest band;
\* on a non-empty slice the feedback is the band string of the reported score.
BandMatches(frames, score, feedback, expected) ==
    /\ score >= baseScore
    /\ feedback \notin LowestBandTexts
    /\ Len(frames) > 0 => feedback = expected

=============================================================================
